---- MODULE Spec2Model ----
(***************************************************************************)
(* A model of paicode's Action Execution Engine: the path sandbox          *)
(* (workspace._is_path_safe), the workspace store (workspace.py), the      *)
(* action dispatcher (agent._generate_execution_renderables), the          *)
(* per-request step loop (agent.start_interactive_session) and the         *)
(* credential store (config.py).                                           *)
(*                                                                         *)
(* Text is modelled as a sequence of one-character strings, so prefix      *)
(* tests, splitting and joining are computed as Python computes them.      *)
(***************************************************************************)
EXTENDS Integers, Sequences, FiniteSets, TLC

VARIABLES
    chkPath,     \* sandbox check: the path handed to _is_path_safe
    chkVerdict,  \* sandbox check: what _is_path_safe returned
    chkDone,     \* sandbox check: the call has returned
    fs,          \* the file system: location |-> [kind, data]
    call,        \* the last workspace operation: its name, its path
                 \* arguments, its content arguments, and whether an odd
                 \* or an even number of calls has been made (nth)
    res,         \* the value the last operation returned
    env,         \* the environment switches of the process
    plan,        \* the block the dispatcher was last called with
    out,         \* the outcome of that call
    pc,          \* where start_interactive_session stands
    action_idx,  \* its action loop's step index
    repeat,      \* history: the last call took up the very action line that
                 \* the call before it had executed with Success
    noopRun,     \* history: the action steps in a row, up to now, whose
                 \* action produced no effective change
    finishSeen,  \* history: an action step of this request had a FINISH
                 \* action in its block
    ranAfterFinish, \* history: an action step ran after such a step
    plan_calls,  \* history: how often the last action step has asked the
                 \* planner for its plan
    store,       \* the credentials file, as _load_store reads it
    now,         \* the clock: what time.time() returns
    cred,        \* the last operation on the credentials: its name, its
                 \* arguments, the time and the cursor it was called at,
                 \* and what it returned
    handed,      \* history: the ids the selections have returned since the
                 \* set of available keys last changed
    cooled,      \* history: for each id, the time until which the last
                 \* blacklist_key call for it has blacklisted it (0: none)
    inv,         \* the invoker (llm.py): the configured model's key, where
                 \* generate_text_resilient stands and its locals, and the
                 \* last call of the planner
    sh,          \* the shell executor: its sessions, its counter, the
                 \* processes it has spawned, the audit log and its last
                 \* operation
    runs         \* the engine processes that share the credentials file:
                 \* for each, the operation it is in and the store it has
                 \* loaded; and whether a save has replaced a file that
                 \* was written after the saved store was loaded

sandboxVars == <<chkPath, chkVerdict, chkDone>>
storeVars == <<fs, call, res>>
dispatchVars == <<env, plan, out, repeat>>
loopVars == <<pc, action_idx, noopRun, finishSeen, ranAfterFinish, plan_calls>>
credVars == <<store, now, cred, handed, cooled, inv, sh, runs>>
vars == <<chkPath, chkVerdict, chkDone, fs, call, res, env, plan, out, pc,
          action_idx, repeat, noopRun, finishSeen, ranAfterFinish, plan_calls,
          store, now, cred, handed, cooled, inv, sh, runs>>

---------------------------------------------------------------------------
(* Python str primitives on character sequences.                           *)

\* str.startswith
StartsWith(s, p) == Len(s) >= Len(p) /\ SubSeq(s, 1, Len(p)) = p

\* str.split(sep) for a one-character separator
RECURSIVE Split(_, _)
Split(s, sep) ==
    IF \A i \in 1..Len(s) : s[i] # sep
    THEN <<s>>
    ELSE LET i == CHOOSE k \in 1..Len(s) :
                      s[k] = sep /\ \A j \in 1..(k - 1) : s[j] # sep
         IN  <<SubSeq(s, 1, i - 1)>> \o Split(SubSeq(s, i + 1, Len(s)), sep)

\* sep.join(parts)
RECURSIVE Join(_, _)
Join(parts, sep) ==
    IF parts = <<>> THEN <<>>
    ELSE IF Len(parts) = 1 THEN parts[1]
    ELSE parts[1] \o <<sep>> \o Join(Tail(parts), sep)

\* str.replace(old, new) for one-character old and new
Replace(s, old, new) == [i \in 1..Len(s) |-> IF s[i] = old THEN new ELSE s[i]]

Dot == <<".">>
DotDot == <<".", ".">>

---------------------------------------------------------------------------
(* PathSandbox: workspace._is_path_safe                                    *)

\* PROJECT_ROOT = os.path.abspath(os.getcwd()): the workspace is /w
PROJECT_ROOT == <<"/", "w">>

\* the root as path segments, for statements about where a path resolves
RootSegs == <<<<"w">>>>

SENSITIVE_PATTERNS ==
    { <<".","e","n","v">>,
      <<".","g","i","t">>,
      <<"v","e","n","v">>,
      <<".","v","e","n","v">>,
      <<"_","_","p","y","c","a","c","h","e","_","_">>,
      <<".","p","a","i","_","h","i","s","t","o","r","y">>,
      <<".","i","d","e","a">>,
      <<".","v","s","c","o","d","e">> }

\* The symbolic links of the file system the sandbox resolves against:
\* /w/ln is a link inside the workspace that points at /o, outside it.
SymlinkAt(segs) == IF segs = <<<<"w">>, <<"l","n">>>> THEN <<<<"o">>>> ELSE segs

\* the component loop of posixpath.normpath
RECURSIVE NormComps(_, _, _)
NormComps(comps, new_comps, initial_slashes) ==
    IF comps = <<>> THEN new_comps
    ELSE LET comp == Head(comps)
             rest == Tail(comps)
         IN  IF comp = <<>> \/ comp = Dot
             THEN NormComps(rest, new_comps, initial_slashes)
             ELSE IF \/ comp # DotDot
                     \/ (initial_slashes = 0 /\ new_comps = <<>>)
                     \/ (new_comps # <<>> /\ new_comps[Len(new_comps)] = DotDot)
             THEN NormComps(rest, Append(new_comps, comp), initial_slashes)
             ELSE IF new_comps # <<>>
             THEN NormComps(rest, SubSeq(new_comps, 1, Len(new_comps) - 1),
                            initial_slashes)
             ELSE NormComps(rest, new_comps, initial_slashes)

\* os.path.normpath (POSIX)
normpath(path) ==
    IF path = <<>> THEN Dot
    ELSE LET initial_slashes ==
                 IF ~StartsWith(path, <<"/">>) THEN 0
                 ELSE IF StartsWith(path, <<"/", "/">>)
                         /\ ~StartsWith(path, <<"/", "/", "/">>)
                 THEN 2 ELSE 1
             body == Join(NormComps(Split(path, "/"), <<>>, initial_slashes), "/")
             joined == [i \in 1..initial_slashes |-> "/"] \o body
         IN  IF joined = <<>> THEN Dot ELSE joined

\* os.path.join(a, b) (POSIX)
join(a, b) ==
    IF StartsWith(b, <<"/">>) THEN b
    ELSE IF a = <<>> \/ a[Len(a)] = "/" THEN a \o b
    ELSE a \o <<"/">> \o b

\* the component walk of os.path.realpath: "." and empty components are
\* skipped, ".." goes to the parent, a symbolic link is replaced by its target
RECURSIVE ResolveSegs(_, _)
ResolveSegs(cur, rest) ==
    IF rest = <<>> THEN cur
    ELSE LET name == Head(rest)
         IN  IF name = <<>> \/ name = Dot
             THEN ResolveSegs(cur, Tail(rest))
             ELSE IF name = DotDot
             THEN ResolveSegs(IF cur = <<>> THEN cur
                              ELSE SubSeq(cur, 1, Len(cur) - 1), Tail(rest))
             ELSE ResolveSegs(SymlinkAt(Append(cur, name)), Tail(rest))

\* os.path.realpath of an absolute path
realpath(p) == <<"/">> \o Join(ResolveSegs(<<>>, Split(p, "/")), "/")

\* a mutant of path_checks: only the first path part is matched against
\* the denylist
path_checks_first_part_only(full_path, path_parts) ==
    IF ~StartsWith(full_path, PROJECT_ROOT) THEN FALSE
    ELSE IF path_parts[1] \in SENSITIVE_PATTERNS THEN FALSE
    ELSE TRUE

\* the two tests of _is_path_safe: the resolved path starts with the
\* project root, and no part of the normalized path is denylisted
path_checks(full_path, path_parts) ==
    IF ~StartsWith(full_path, PROJECT_ROOT) THEN FALSE
    ELSE IF \E i \in 1..Len(path_parts) :
                path_parts[i] \in SENSITIVE_PATTERNS THEN FALSE
    ELSE TRUE

\* _is_path_safe from norm_path = os.path.normpath(path) on
norm_path_safe(norm_path) ==
    path_checks(realpath(join(PROJECT_ROOT, norm_path)),
                Split(Replace(norm_path, "\\", "/"), "/"))

\* workspace._is_path_safe
_is_path_safe(path) ==
    IF path = <<>> THEN FALSE ELSE norm_path_safe(normpath(path))

---------------------------------------------------------------------------
(* WorkspaceStore: the file system and workspace.py's operations on it.    *)
(* A location is the sequence of names from / down; fs maps each location  *)
(* that exists to a directory or a file with its content.                  *)

W == <<"w">>
ATxt == <<"a", ".", "t", "x", "t">>
BTxt == <<"b", ".", "t", "x", "t">>
NotesTxt == <<"n", "o", "t", "e", "s", ".", "t", "x", "t">>
D == <<"d">>
DotEnv == <<".", "e", "n", "v">>
O == <<"o">>

DirE == [kind |-> "dir", data |-> <<>>]
FileE(c) == [kind |-> "file", data |-> c]

\* The file system a session starts in: the workspace /w holds the
\* denylisted file .env, and /o is a file outside the workspace.
InitFs ==
    (<<>> :> DirE) @@ (<<W>> :> DirE) @@
    (<<W, DotEnv>> :> FileE(<<"k">>)) @@ (<<O>> :> FileE(<<"k">>))

KindOf(f, loc) == IF loc \in DOMAIN f THEN f[loc].kind ELSE "absent"
Parent(loc) == SubSeq(loc, 1, Len(loc) - 1)
Basename(loc) == loc[Len(loc)]
IsBelow(l, loc) == Len(l) > Len(loc) /\ SubSeq(l, 1, Len(loc)) = loc
Put(f, loc, e) == [l \in DOMAIN f \cup {loc} |-> IF l = loc THEN e ELSE f[l]]
RemoveTree(f, loc) ==
    [l \in {x \in DOMAIN f : x # loc /\ ~IsBelow(x, loc)} |-> f[l]]
\* os.rename(src, dst): the entry at src, with all below it, moves to dst
RenameTree(f, src, dst) ==
    LET moved == {x \in DOMAIN f : x = src \/ IsBelow(x, src)}
        kept == {x \in DOMAIN f : x \notin moved /\ x # dst /\ ~IsBelow(x, dst)}
        to(x) == dst \o SubSeq(x, Len(src) + 1, Len(x))
    IN  [l \in kept \cup {to(x) : x \in moved} |->
            IF l \in kept THEN f[l]
            ELSE f[CHOOSE x \in moved : to(x) = l]]

\* the location the operating system opens for
\* os.path.join(PROJECT_ROOT, path)
OsResolve(path) == ResolveSegs(<<>>, Split(join(PROJECT_ROOT, path), "/"))

\* The paths the operations are called with in this model.
P_a == ATxt
P_b == BTxt
P_d == D
P_da == D \o <<"/">> \o ATxt
P_env == DotEnv
P_up_o == DotDot \o <<"/">> \o O
P_empty == <<>>

UnsafePaths == {P_env, P_up_o, P_empty}
StorePaths == {P_a, P_b, P_d, P_da} \cup UnsafePaths
StoreContents == {<<>>, <<"x">>}
P_notes == NotesTxt
KnownPaths == StorePaths \cup {Dot, P_notes}

\* _is_path_safe and the resolution of a path are functions of the path
\* alone: they are computed once for each path and looked up from then on.
SafeTable == [p \in KnownPaths |-> _is_path_safe(p)]
LocTable == [p \in KnownPaths |-> OsResolve(p)]
is_safe(path) == SafeTable[path]
Loc(path) == LocTable[path]

\* what open(full_path, 'r').read() returns for a file's bytes: text mode
\* reads "\r\n" and "\r" as "\n"
RECURSIVE ReadText(_)
ReadText(c) ==
    IF c = <<>> THEN <<>>
    ELSE IF Head(c) = "\r"
    THEN <<"\n">> \o ReadText(IF Len(c) >= 2 /\ c[2] = "\n"
                              THEN SubSeq(c, 3, Len(c)) ELSE Tail(c))
    ELSE <<Head(c)>> \o ReadText(Tail(c))

\* content.replace('\r\n', '\n').replace('\r', '\n')
RECURSIVE NormEOL(_)
NormEOL(c) ==
    IF c = <<>> THEN <<>>
    ELSE IF Head(c) = "\r"
    THEN <<"\n">> \o NormEOL(IF Len(c) >= 2 /\ c[2] = "\n"
                             THEN SubSeq(c, 3, Len(c)) ELSE Tail(c))
    ELSE <<Head(c)>> \o NormEOL(Tail(c))

\* os.makedirs(loc, exist_ok=True): ok is FALSE when it raises OSError
RECURSIVE makedirs(_, _)
makedirs(f, loc) ==
    IF KindOf(f, loc) = "dir" THEN [ok |-> TRUE, fs |-> f]
    ELSE IF KindOf(f, loc) = "file" \/ loc = <<>> THEN [ok |-> FALSE, fs |-> f]
    ELSE LET up == makedirs(f, Parent(loc))
         IN  IF up.ok THEN [ok |-> TRUE, fs |-> Put(up.fs, loc, DirE)] ELSE up

\* What an operation returns: the status its message starts with ("None"
\* and "Content" for read_file, "Raise" for an exception that leaves the
\* function), the message, the content or listing it carries, and the
\* number of changed lines a message of apply_modification_with_patch names.
Res(status, msg) ==
    [status |-> status, msg |-> msg, data |-> <<>>, listing |-> {},
     count |-> 0]
NoRes == Res("", "")
NoCall == [op |-> "", paths |-> <<>>, args |-> <<>>, nth |-> 0]

\* the entries below loc that list_path and tree_directory show: those
\* with no denylisted name on the way down
Visible(f, loc) ==
    {l \in DOMAIN f :
        /\ IsBelow(l, loc)
        /\ \A i \in (Len(loc) + 1)..Len(l) : l[i] \notin SENSITIVE_PATTERNS}

\* tree_directory and list_path below the sandbox gate
listing_at(f, loc, status) ==
    IF KindOf(f, loc) # "dir"
    THEN [fs |-> f, res |-> Res("Error", "is not a valid directory")]
    ELSE [fs |-> f, res |-> [Res(status, "") EXCEPT !.listing = Visible(f, loc)]]

\* workspace.tree_directory
tree_directory(f, path) ==
    IF ~is_safe(path)
    THEN [fs |-> f, res |-> Res("Error", "Cannot access path")]
    ELSE listing_at(f, Loc(path), "Tree")

\* workspace.list_path
list_path(f, path) ==
    IF ~is_safe(path)
    THEN [fs |-> f, res |-> Res("Error", "Cannot access path")]
    ELSE listing_at(f, Loc(path), "List")

\* delete_item below the sandbox gate
delete_at(f, loc) ==
    IF KindOf(f, loc) = "file"
    THEN [fs |-> RemoveTree(f, loc), res |-> Res("Success", "File deleted")]
    ELSE IF KindOf(f, loc) = "dir"
    THEN [fs |-> RemoveTree(f, loc), res |-> Res("Success", "Directory deleted")]
    ELSE [fs |-> f, res |-> Res("Warning", "Item not found, nothing deleted")]

\* workspace.delete_item
delete_item(f, path) ==
    IF ~is_safe(path)
    THEN [fs |-> f, res |-> Res("Error", "is denied or path is not secure")]
    ELSE delete_at(f, Loc(path))

\* shutil.move(src, dst) to real_dst, where src is a directory and the
\* parent of real_dst is not one: copytree makes the directories
move_tree(f, src, real_dst, md) ==
    IF md.ok THEN [how |-> "ok", fs |-> RenameTree(md.fs, src, real_dst)]
    ELSE [how |-> "raise", fs |-> f]

\* shutil.move(src, dst) once real_dst, the place the entry goes, is known
move_to(f, src, dst, real_dst) ==
    IF KindOf(f, dst) = "dir" /\ src # dst /\ KindOf(f, real_dst) # "absent"
    THEN [how |-> "exists", fs |-> f]   \* Destination path already exists
    ELSE IF KindOf(f, src) = "absent"
    THEN [how |-> "caught", fs |-> f]   \* FileNotFoundError
    ELSE IF src = real_dst
    THEN [how |-> "ok", fs |-> f]
    ELSE IF KindOf(f, src) = "file"
    THEN IF KindOf(f, Parent(real_dst)) = "dir"
         THEN [how |-> "ok", fs |-> RenameTree(f, src, real_dst)]
         ELSE IF KindOf(f, Parent(real_dst)) = "absent"
                 /\ KindOf(f, Parent(Parent(real_dst))) # "file"
         THEN [how |-> "caught", fs |-> f]  \* copy2: FileNotFoundError
         ELSE [how |-> "raise", fs |-> f]   \* copy2: NotADirectoryError
    ELSE \* src is a directory
         IF IsBelow(real_dst, src)
         THEN [how |-> "caught", fs |-> f]  \* Cannot move into itself
         ELSE IF KindOf(f, real_dst) = "file"
         THEN [how |-> "raise", fs |-> f]   \* copytree: FileExistsError
         ELSE IF KindOf(f, Parent(real_dst)) = "dir"
         THEN [how |-> "ok", fs |-> RenameTree(f, src, real_dst)]
         ELSE move_tree(f, src, real_dst, makedirs(f, Parent(real_dst)))

\* shutil.move(src, dst) as move_item calls it; the result is "ok",
\* "exists" (shutil.Error: Destination path already exists), "caught"
\* (FileNotFoundError or another shutil.Error, which move_item catches) or
\* "raise" (another OSError, which it does not catch)
shutil_move(f, src, dst) ==
    move_to(f, src, dst,
            IF KindOf(f, dst) = "dir" /\ src # dst
            THEN Append(dst, Basename(src)) ELSE dst)

\* a mutant of moved: a FileNotFoundError is not reported
moved_not_found_ok(m) ==
    IF m.how = "ok" \/ m.how = "caught"
    THEN [fs |-> m.fs, res |-> Res("Success", "Item moved")]
    ELSE [fs |-> m.fs, res |-> Res("Raise", "OSError")]

\* what move_item returns after shutil.move ended as m
moved(m) ==
    IF m.how = "ok" THEN [fs |-> m.fs, res |-> Res("Success", "Item moved")]
    ELSE IF m.how = "exists"
    THEN [fs |-> m.fs,
          res |-> Res("Error", "Failed to move: Destination path already exists")]
    ELSE IF m.how = "caught"
    THEN [fs |-> m.fs, res |-> Res("Error", "Failed to move")]
    ELSE [fs |-> m.fs, res |-> Res("Raise", "OSError")]

\* a mutant of move_item: the move is refused only when both paths are unsafe
move_item_gate_and(f, source, destination) ==
    IF ~is_safe(source) /\ ~is_safe(destination)
    THEN [fs |-> f, res |-> Res("Error", "is not secure or is denied")]
    ELSE moved(shutil_move(f, Loc(source), Loc(destination)))

\* workspace.move_item
move_item(f, source, destination) ==
    IF ~is_safe(source) \/ ~is_safe(destination)
    THEN [fs |-> f, res |-> Res("Error", "is not secure or is denied")]
    ELSE moved(shutil_move(f, Loc(source), Loc(destination)))

\* create_file below the sandbox gate, after os.makedirs returned md
create_file_at(md, loc) ==
    IF ~md.ok
    THEN [fs |-> md.fs, res |-> Res("Error", "Failed to create file")]
    ELSE IF KindOf(md.fs, loc) # "absent"
    THEN [fs |-> md.fs,
          res |-> Res("Warning", "File already exists, left untouched")]
    ELSE [fs |-> Put(md.fs, loc, FileE(<<>>)),
          res |-> Res("Success", "File created")]

\* workspace.create_file
create_file(f, file_path) ==
    IF ~is_safe(file_path)
    THEN [fs |-> f, res |-> Res("Error", "is denied or path is not secure")]
    ELSE create_file_at(makedirs(f, Parent(Loc(file_path))), Loc(file_path))

\* pai_code/fs.py create_file below the sandbox gate: the file is opened
\* with mode 'w', which truncates a file that exists
fs_create_file_at(md, loc) ==
    IF ~md.ok \/ KindOf(md.fs, loc) = "dir"
    THEN [fs |-> md.fs, res |-> Res("Error", "Failed to create file")]
    ELSE [fs |-> Put(md.fs, loc, FileE(<<>>)),
          res |-> Res("Success", "File created")]

\* pai_code/fs.py create_file, the create_file of the pai_code package
fs_create_file(f, file_path) ==
    IF ~is_safe(file_path)
    THEN [fs |-> f, res |-> Res("Error", "is denied or path is not secure")]
    ELSE fs_create_file_at(makedirs(f, Parent(Loc(file_path))), Loc(file_path))

\* create_directory below the sandbox gate, after os.makedirs returned md
create_directory_made(md) ==
    IF md.ok
    THEN [fs |-> md.fs, res |-> Res("Success", "Directory created")]
    ELSE [fs |-> md.fs, res |-> Res("Error", "Failed to create directory")]

\* workspace.create_directory
create_directory(f, dir_path) ==
    IF ~is_safe(dir_path)
    THEN [fs |-> f, res |-> Res("Error", "is denied or path is not secure")]
    ELSE create_directory_made(makedirs(f, Loc(dir_path)))

\* read_file below the sandbox gate
read_at(f, loc) ==
    IF KindOf(f, loc) = "file"
    THEN [fs |-> f,
          res |-> [Res("Content", "") EXCEPT !.data = ReadText(f[loc].data)]]
    ELSE [fs |-> f, res |-> Res("None", "")]

\* workspace.read_file: None, or the file's text
read_file(f, file_path) ==
    IF ~is_safe(file_path) THEN [fs |-> f, res |-> Res("None", "")]
    ELSE read_at(f, Loc(file_path))

\* write_to_file below the sandbox gate, after os.makedirs returned md
write_at(md, loc, content) ==
    IF ~md.ok \/ KindOf(md.fs, loc) = "dir"
    THEN [fs |-> md.fs, res |-> Res("Error", "Failed to write to file")]
    ELSE IF KindOf(md.fs, loc) = "file" /\ ReadText(md.fs[loc].data) = content
    THEN [fs |-> md.fs, res |-> Res("Warning", "No changes detected")]
    ELSE [fs |-> Put(md.fs, loc, FileE(content)),
          res |-> Res("Success", "Content successfully written")]

\* workspace.write_to_file
write_to_file(f, file_path, content) ==
    IF ~is_safe(file_path)
    THEN [fs |-> f, res |-> Res("Error", "is denied or path is not secure")]
    ELSE write_at(makedirs(f, Parent(Loc(file_path))), Loc(file_path), content)

\* str.splitlines(keepends=True) of a text whose line ends are line feeds
RECURSIVE splitlines(_)
splitlines(s) ==
    IF s = <<>> THEN <<>>
    ELSE IF \A i \in 1..Len(s) : s[i] # "\n" THEN <<s>>
    ELSE LET i == CHOOSE k \in 1..Len(s) :
                      s[k] = "\n" /\ \A j \in 1..(k - 1) : s[j] # "\n"
         IN  <<SubSeq(s, 1, i)>> \o splitlines(SubSeq(s, i + 1, Len(s)))

\* the blocks <<i, j, k>> of k lines that a has from i on and b from j on
common_blocks(a, b) ==
    { t \in (1..Len(a)) \X (1..Len(b)) \X (1..Len(a)) :
        /\ t[1] + t[3] - 1 <= Len(a)
        /\ t[2] + t[3] - 1 <= Len(b)
        /\ SubSeq(a, t[1], t[1] + t[3] - 1) = SubSeq(b, t[2], t[2] + t[3] - 1) }

\* difflib.SequenceMatcher.find_longest_match: a longest common block, of
\* those the one that starts earliest in a, of those the earliest in b
find_longest_match(blocks) ==
    CHOOSE t \in blocks : \A u \in blocks :
        \/ t[3] > u[3]
        \/ t[3] = u[3] /\ t[1] < u[1]
        \/ t[3] = u[3] /\ t[1] = u[1] /\ t[2] <= u[2]

\* the number of lines in difflib.SequenceMatcher.get_matching_blocks: the
\* longest match, and the matches to the left and to the right of it
RECURSIVE matching_lines(_, _)
matching_around(a, b, m) ==
    m[3] + matching_lines(SubSeq(a, 1, m[1] - 1), SubSeq(b, 1, m[2] - 1))
         + matching_lines(SubSeq(a, m[1] + m[3], Len(a)),
                          SubSeq(b, m[2] + m[3], Len(b)))
matching_lines(a, b) ==
    IF common_blocks(a, b) = {} THEN 0
    ELSE matching_around(a, b, find_longest_match(common_blocks(a, b)))

\* changed_lines_count: the lines of the unified diff that start with "-"
\* or "+", the headers left out
changed_lines_count(original_lines, new_lines) ==
    (Len(original_lines) - matching_lines(original_lines, new_lines))
    + (Len(new_lines) - matching_lines(original_lines, new_lines))

\* what apply_modification_with_patch returns after write_to_file returned w
patched(w, count) ==
    IF w.res.status = "Success"
    THEN [fs |-> w.fs,
          res |-> [Res("Success", "Applied modification") EXCEPT !.count = count]]
    ELSE w

\* a mutant of apply_diffed: the content is written whatever the diff holds
apply_diffed_always(f, file_path, new_content, original_lines, new_lines) ==
    patched(write_to_file(f, file_path, new_content),
            changed_lines_count(original_lines, new_lines))

\* apply_modification_with_patch below the sandbox gate: "if not diff", for
\* the diff of original_lines and new_lines, and the write
apply_diffed(f, file_path, new_content, original_lines, new_lines) ==
    IF original_lines = new_lines
    THEN [fs |-> f, res |-> Res("Warning", "No changes detected")]
    ELSE patched(write_to_file(f, file_path, new_content),
                 changed_lines_count(original_lines, new_lines))

\* workspace.apply_modification_with_patch: res.status is "Success" exactly
\* when the returned bool is True
apply_modification_with_patch(f, file_path, original_content, new_content) ==
    IF ~is_safe(file_path)
    THEN [fs |-> f, res |-> Res("Error", "is denied or path is not secure")]
    ELSE apply_diffed(f, file_path, new_content,
                      splitlines(NormEOL(original_content)),
                      splitlines(NormEOL(new_content)))

---------------------------------------------------------------------------
(* The action protocol: a block is the list of its lines, a line is text.  *)

LowerChars == <<"a","b","c","d","e","f","g","h","i","j","k","l","m","n","o","p","q","r","s","t","u","v","w","x","y","z">>
UpperChars == <<"A","B","C","D","E","F","G","H","I","J","K","L","M","N","O","P","Q","R","S","T","U","V","W","X","Y","Z">>
Whitespace == {" ", "\t", "\n", "\r"}

\* str.upper
upper(s) ==
    [i \in 1..Len(s) |->
        IF \E k \in 1..Len(LowerChars) : LowerChars[k] = s[i]
        THEN UpperChars[CHOOSE k \in 1..Len(LowerChars) : LowerChars[k] = s[i]]
        ELSE s[i]]

\* str.lower
lower(s) ==
    [i \in 1..Len(s) |->
        IF \E k \in 1..Len(UpperChars) : UpperChars[k] = s[i]
        THEN LowerChars[CHOOSE k \in 1..Len(UpperChars) : UpperChars[k] = s[i]]
        ELSE s[i]]

\* str.strip
strip(s) ==
    IF \A i \in 1..Len(s) : s[i] \in Whitespace THEN <<>>
    ELSE LET a == CHOOSE i \in 1..Len(s) :
                      s[i] \notin Whitespace
                      /\ \A j \in 1..(i - 1) : s[j] \in Whitespace
             b == CHOOSE i \in 1..Len(s) :
                      s[i] \notin Whitespace
                      /\ \A j \in (i + 1)..Len(s) : s[j] \in Whitespace
         IN  SubSeq(s, a, b)

\* str.find, counted from 1; 0 when sub does not occur in s
find(s, sub) ==
    LET hits == {i \in 1..(Len(s) - Len(sub) + 1) :
                    SubSeq(s, i, i + Len(sub) - 1) = sub}
    IN  IF hits = {} THEN 0
        ELSE CHOOSE i \in hits : \A j \in hits : i <= j

\* sub in s
contains(s, sub) == find(s, sub) # 0

\* str.partition(sep): the text before the first sep, and the text after it
partition(s, sep) ==
    LET i == find(s, sep)
    IN  IF i = 0 THEN [head |-> s, found |-> FALSE, tail |-> <<>>]
        ELSE [head |-> SubSeq(s, 1, i - 1), found |-> TRUE,
              tail |-> SubSeq(s, i + Len(sep), Len(s))]

Sep == <<":", ":">>

H_CREATE_DIRECTORY == <<"C","R","E","A","T","E","_","D","I","R","E","C","T","O","R","Y">>
H_CREATE_FILE == <<"C","R","E","A","T","E","_","F","I","L","E">>
H_WRITE_FILE == <<"W","R","I","T","E","_","F","I","L","E">>
H_READ_FILE == <<"R","E","A","D","_","F","I","L","E">>
H_MODIFY_FILE == <<"M","O","D","I","F","Y","_","F","I","L","E">>
H_DELETE_PATH == <<"D","E","L","E","T","E","_","P","A","T","H">>
H_MOVE_PATH == <<"M","O","V","E","_","P","A","T","H">>
H_LIST_PATHS == <<"L","I","S","T","_","P","A","T","H","S">>
H_SHOW_TREE == <<"S","H","O","W","_","T","R","E","E">>
H_EXECUTE == <<"E","X","E","C","U","T","E">>
H_EXECUTE_INPUT == <<"E","X","E","C","U","T","E","_","I","N","P","U","T">>
H_FINISH == <<"F","I","N","I","S","H">>

allowed_headers ==
    { H_CREATE_DIRECTORY,
      H_CREATE_FILE,
      H_WRITE_FILE,
      H_READ_FILE,
      H_MODIFY_FILE,
      H_DELETE_PATH,
      H_MOVE_PATH,
      H_LIST_PATHS,
      H_SHOW_TREE,
      H_EXECUTE,
      H_EXECUTE_INPUT,
      H_FINISH }


\* what the dispatcher and the loop read of a line whose header is head and
\* whose parameters split as q
ParseFields(line, head, params, q) ==
    [ line |-> line,
      is_action |-> contains(line, Sep),            \* '::' in line
      hdr |-> upper(strip(head)),                   \* the filter's header
      command_candidate |-> strip(upper(head)),
      params |-> params,
      first |-> q.head,                             \* params.partition('::')
      rest |-> q.tail,
      finish_prefix |-> StartsWith(upper(line), H_FINISH \o Sep) ]

\* ... of a line that splits as p at its first '::'
ParseHead(line, p) == ParseFields(line, p.head, p.tail, partition(p.tail, Sep))

\* ... of a stripped line
ParseStripped(line) == ParseHead(line, partition(line, Sep))

\* what the dispatcher and the loop read of one raw line of a block
ParseLine(raw) == ParseStripped(strip(raw))

\* The lines the planner writes in this model.
Line(header, params) == header \o Sep \o params
Desc == <<"t">>
Cmd_ls == <<"l", "s">>
Cmd_curl == <<"c","u","r","l"," ","x">>

L_commentary == <<"o", "k">>
L_RUN_ls == Line(<<"R", "U", "N">>, Cmd_ls)
L_CREATE_FILE_notes == Line(H_CREATE_FILE, P_notes)
L_CREATE_FILE_env == Line(H_CREATE_FILE, P_env)
L_CREATE_FILE_d == Line(H_CREATE_FILE, P_d)
L_create_file_notes == Line(lower(H_CREATE_FILE), P_notes)
L_WRITE_FILE_notes == Line(H_WRITE_FILE, P_notes \o Sep \o Desc)
L_WRITE_FILE_env == Line(H_WRITE_FILE, P_env \o Sep \o Desc)
L_READ_FILE_notes == Line(H_READ_FILE, P_notes)
L_MODIFY_FILE_notes == Line(H_MODIFY_FILE, P_notes \o Sep \o Desc)
L_MODIFY_FILE_env == Line(H_MODIFY_FILE, P_env \o Sep \o Desc)
InlineContent == <<"i", "m", "p", "o", "r", "t", " ", "x">>
DiffHead == <<"-", "-", "-", " ", "a", "/">>
L_MODIFY_FILE_inline == Line(H_MODIFY_FILE, P_notes \o Sep \o InlineContent)
L_MODIFY_FILE_diff ==
    Line(H_MODIFY_FILE, P_notes \o Sep \o DiffHead \o P_notes)
L_DELETE_PATH_notes == Line(H_DELETE_PATH, P_notes)
L_DELETE_PATH_d == Line(H_DELETE_PATH, P_d)
L_MOVE_PATH_a_b == Line(H_MOVE_PATH, P_a \o Sep \o P_b)
L_MOVE_PATH_notes_env == Line(H_MOVE_PATH, P_notes \o Sep \o P_env)
L_LIST_PATHS == Line(H_LIST_PATHS, <<>>)
L_SHOW_TREE_env == Line(H_SHOW_TREE, P_env)
L_CREATE_DIRECTORY_d == Line(H_CREATE_DIRECTORY, P_d)
L_EXECUTE_ls == Line(H_EXECUTE, Cmd_ls)
L_EXECUTE_curl == Line(H_EXECUTE, Cmd_curl)
L_EXECUTE_nothing == Line(H_EXECUTE, <<>>)
L_EXECUTE_INPUT_ls == Line(H_EXECUTE_INPUT, Cmd_ls \o Sep \o <<"y">>)
L_FINISH == Line(H_FINISH, <<"o", "k">>)
L_FINISH_spaced == <<" ">> \o H_FINISH \o <<" ">> \o Sep \o <<"o", "k">>

ProtocolLines ==
    { L_commentary, L_RUN_ls, L_CREATE_FILE_notes, L_CREATE_FILE_env,
      L_CREATE_FILE_d, L_create_file_notes, L_WRITE_FILE_notes,
      L_WRITE_FILE_env, L_READ_FILE_notes, L_MODIFY_FILE_notes,
      L_MODIFY_FILE_env,
      L_DELETE_PATH_notes, L_DELETE_PATH_d, L_MOVE_PATH_a_b,
      L_MOVE_PATH_notes_env, L_LIST_PATHS, L_SHOW_TREE_env, L_CREATE_DIRECTORY_d,
      L_EXECUTE_ls, L_EXECUTE_curl, L_EXECUTE_nothing, L_EXECUTE_INPUT_ls,
      L_FINISH, L_FINISH_spaced }

\* MODIFY_FILE lines whose description is the new content of the file, or
\* the head of a unified diff
InlineLines == { L_MODIFY_FILE_inline, L_MODIFY_FILE_diff }

\* a line is parsed once and looked up from then on
ParseTable == [raw \in ProtocolLines \cup InlineLines |-> ParseLine(raw)]
Parsed(raw) == ParseTable[raw]

---------------------------------------------------------------------------
(* The shell: workspace.run_shell and workspace.run_shell_with_input.      *)
(* The process itself is outside the model: how it ends is an input.       *)

net_indicators ==
    { <<"c","u","r","l"," ">>,
      <<" ","w","g","e","t"," ">>,
      <<" ","h","t","t","p",":","/","/">>,
      <<" ","h","t","t","p","s",":","/","/">>,
      <<" ","g","i","t"," ","c","l","o","n","e">>,
      <<" ","p","i","p"," ","i","n","s","t","a","l","l">>,
      <<" ","a","p","t"," ">>,
      <<" ","a","p","t","-","g","e","t"," ">>,
      <<" ","n","p","m"," ">>,
      <<" ","p","n","p","m"," ">>,
      <<" ","y","a","r","n"," ">>,
      <<" ","b","r","e","w"," ">>,
      <<" ","s","s","h"," ">>,
      <<" ","s","c","p"," ">> }

ShellOutcomes == {"exit0", "exit1", "timeout"}

\* workspace.run_shell: spawned tells whether a process was started, audit
\* whether a line was appended to the audit log
run_shell(e, command, how) ==
    IF ~e.PAI_ALLOW_SHELL_EXEC
    THEN [spawned |-> FALSE, audit |-> FALSE,
          res |-> Res("Warning", "Shell execution is disabled")]
    ELSE IF ~e.PAI_ALLOW_NET
            /\ \E tok \in net_indicators :
                   contains(<<" ">> \o command \o <<" ">>, tok)
    THEN [spawned |-> FALSE, audit |-> FALSE,
          res |-> Res("Warning", "Network operations are disabled")]
    ELSE IF how = "timeout"
    THEN [spawned |-> TRUE, audit |-> FALSE,
          res |-> Res("Warning", "Shell command timed out")]
    ELSE [spawned |-> TRUE, audit |-> TRUE,
          res |-> Res(IF how = "exit0" THEN "Success" ELSE "Error",
                      "Shell command executed")]

\* workspace.run_shell_with_input
run_shell_with_input(e, command, input_text, how) ==
    IF ~e.PAI_ALLOW_SHELL_EXEC
    THEN [spawned |-> FALSE, audit |-> FALSE,
          res |-> Res("Warning", "Shell execution is disabled")]
    ELSE IF ~e.PAI_ALLOW_NET
            /\ \E tok \in net_indicators :
                   contains(<<" ">> \o command \o <<" ">>, tok)
    THEN [spawned |-> FALSE, audit |-> FALSE,
          res |-> Res("Warning", "Network operations are disabled")]
    ELSE IF how = "timeout"
    THEN [spawned |-> TRUE, audit |-> FALSE,
          res |-> Res("Warning", "Shell command timed out while providing stdin")]
    ELSE [spawned |-> TRUE, audit |-> TRUE,
          res |-> Res(IF how = "exit0" THEN "Success" ELSE "Error",
                      "Shell command executed")]

---------------------------------------------------------------------------
(* ActionDispatcher: agent._generate_execution_renderables.                *)

\* the environment switches the code reads with os.getenv
DefaultEnv ==
    [ PAI_ALLOW_SHELL_EXEC |-> TRUE, PAI_ALLOW_NET |-> FALSE,
      PAI_EARLY_FINISH_NOOP |-> 3, PAI_MAX_CMDS_PER_STEP |-> 15 ]

Min(a, b) == IF a <= b THEN a ELSE b
Max(a, b) == IF a >= b THEN a ELSE b

early_noop_threshold(e) == Max(1, Min(e.PAI_EARLY_FINISH_NOOP, 10))
MAX_COMMANDS_PER_STEP(e) ==
    IF e.PAI_MAX_CMDS_PER_STEP < 1 THEN 1
    ELSE IF e.PAI_MAX_CMDS_PER_STEP > 50 THEN 50
    ELSE e.PAI_MAX_CMDS_PER_STEP

\* What the model of the language model hands back for the calls one
\* action makes: the text of the first and of the second generation (empty
\* when the call fails) and how a shell process ends.
GenContents == {<<>>, <<"x">>, <<"y">>}

\* The state of one call of the dispatcher: the file system, the locals
\* executed_signatures, created_paths, wrote_nochange_paths and noop_streak,
\* and what the call has done so far: the action lines its loop took up
\* (taken), the workspace and shell operations run for them (ran), the
\* results reported (results), the commands spawned, the audit lines
\* written, the generations asked of the language model, for MODIFY_FILE
\* the prompts they were asked with (prompts) and what each
\* apply_modification_with_patch returned (applied), and whether the
\* loop ended on a synthesized finish (auto) or a FINISH action (fin).
DispState0(f) ==
    [ fs |-> f, executed_signatures |-> {}, created_paths |-> {},
      wrote_nochange_paths |-> {}, noop_streak |-> 0,
      taken |-> <<>>, ran |-> <<>>, results |-> <<>>, spawned |-> <<>>,
      audited |-> 0, llm |-> 0, prompts |-> <<>>, applied |-> <<>>,
      auto |-> FALSE, fin |-> FALSE, brk |-> FALSE ]

Ran(st, action, op) ==
    [st EXCEPT !.ran = Append(@, [line |-> action.line, op |-> op])]
Report(st, r) == [st EXCEPT !.results = Append(@, [status |-> r.status, msg |-> r.msg])]

\* "Task appears complete (repeated no-ops). Finishing early." and break
EarlyFinish(st, thr) ==
    IF st.noop_streak >= thr THEN [st EXCEPT !.auto = TRUE, !.brk = TRUE] ELSE st

\* a skip: a Warning that names the skip, counted as a no-op
Skip(st, msg, thr) ==
    EarlyFinish([Report(st, Res("Warning", msg)) EXCEPT !.noop_streak = @ + 1], thr)

\* "warning: no changes detected" in lowered
NoChangeText(r) == r.status = "Warning" /\ r.msg = "No changes detected"

\* ... or "already exists" in lowered or "skipping" in lowered
NoopText(r) ==
    \/ NoChangeText(r)
    \/ r.msg \in {"File already exists, left untouched",
                  "Failed to move: Destination path already exists"}

\* the handling of a non-empty result: it is reported, the no-op streak is
\* counted or reset, the path is remembered, the streak may finish the call
AfterResult(st, internal_op, path, r, thr) ==
    LET s1 == Report(st, r)
        s2 == [s1 EXCEPT
                 !.noop_streak = IF NoopText(r) THEN @ + 1 ELSE 0,
                 !.created_paths =
                     IF internal_op = H_CREATE_FILE THEN @ \cup {path} ELSE @,
                 !.wrote_nochange_paths =
                     IF internal_op = H_WRITE_FILE /\ NoChangeText(r)
                     THEN @ \cup {path} ELSE @]
    IN  EarlyFinish(s2, thr)

\* a store operation's result with the number of generations asked for
Generated(r, n) == [fs |-> r.fs, llm |-> n, res |-> r.res]

\* handle_write after its first apply_modification_with_patch returned a
handle_write_applied(file_path, existing, g2, a) ==
    IF a.res.status = "Success" /\ a.res.msg = "No changes detected"
    THEN IF g2 = <<>> THEN Generated(a, 2)
         ELSE Generated(apply_modification_with_patch(a.fs, file_path,
                                                      existing.data, g2), 2)
    ELSE Generated(a, 1)

\* handle_write after read_file returned existing
handle_write_read(f, file_path, g1, g2, existing) ==
    IF existing.status = "Content"
    THEN IF g1 = <<>>
         THEN [fs |-> f, llm |-> 1,
               res |-> Res("Error", "Failed to generate modified content")]
         ELSE handle_write_applied(file_path, existing, g2,
                  apply_modification_with_patch(f, file_path, existing.data, g1))
    ELSE IF g1 = <<>>
    THEN [fs |-> f, llm |-> 1,
          res |-> Res("Error", "Failed to generate content from LLM")]
    ELSE Generated(write_to_file(f, file_path, g1), 1)

\* agent.handle_write: llm is the number of generations it asked for
handle_write(f, file_path, g1, g2) ==
    handle_write_read(f, file_path, g1, g2, read_file(f, file_path).res)

\* WRITE_FILE after handle_write returned h
wrote(st, action, h, thr) ==
    AfterResult([Ran(st, action, "handle_write") EXCEPT
                    !.fs = h.fs, !.llm = @ + h.llm],
                H_WRITE_FILE, action.first, h.res, thr)

\* a mutant of do_WRITE_FILE: the check for an existing file is left out
do_WRITE_FILE_no_check(st, action, o, thr) ==
    wrote(st, action, handle_write(st.fs, action.first, o.g1, o.g2), thr)

\* WRITE_FILE::path::description
do_WRITE_FILE(st, action, o, thr) ==
    IF read_file(st.fs, action.first).res.status # "None"
    THEN Report(st, Res("Error",
             "WRITE_FILE rejected for existing file. Use MODIFY_FILE"))
    ELSE IF action.first \in st.wrote_nochange_paths
    THEN Skip(st, "Skipping WRITE_FILE (no changes in prior attempt)", thr)
    ELSE wrote(st, action, handle_write(st.fs, action.first, o.g1, o.g2), thr)

\* READ_FILE::path
do_READ_FILE(st, action, thr) ==
    AfterResult(Ran(st, action, "read_file"), H_READ_FILE, action.first,
                IF read_file(st.fs, action.first).res.status # "None"
                THEN Res("Success", "Read and displayed")
                ELSE Res("Error", "Failed to read file"), thr)

\* "new_content_1 = llm.generate_text_resilient(modification_prompt_1)",
\* and the same for the other prompts
Asked(st, prompt) ==
    [st EXCEPT !.llm = @ + 1, !.prompts = Append(@, prompt)]

\* apply_modification_with_patch returned a
Applied(st, a) ==
    [st EXCEPT !.fs = a.fs,
               !.applied = Append(@, [status |-> a.res.status,
                                      msg |-> a.res.msg])]

\* str.endswith and str.lstrip
EndsWith(s, p) ==
    Len(s) >= Len(p) /\ SubSeq(s, Len(s) - Len(p) + 1, Len(s)) = p
lstrip(s) ==
    IF \A i \in 1..Len(s) : s[i] \in Whitespace THEN <<>>
    ELSE SubSeq(s, CHOOSE i \in 1..Len(s) :
                       s[i] \notin Whitespace /\
                       \A j \in 1..(i - 1) : s[j] \in Whitespace,
                Len(s))

\* str.splitlines() of a text whose line ends are line feeds
lines_of(s) ==
    [i \in 1..Len(splitlines(s)) |->
        IF EndsWith(splitlines(s)[i], <<"\n">>)
        THEN SubSeq(splitlines(s)[i], 1, Len(splitlines(s)[i]) - 1)
        ELSE splitlines(s)[i]]

\* _strip_code_fences: the first and the last line are dropped from a text
\* of two or more lines that starts and ends with a fence
\* (the grave accent, the character of a fence, is written "grave")
Fence == <<"grave", "grave", "grave">>
_strip_code_fences(txt) ==
    IF /\ StartsWith(strip(txt), Fence)
       /\ EndsWith(strip(txt), Fence)
       /\ Len(lines_of(strip(txt))) >= 2
    THEN Join(SubSeq(lines_of(strip(txt)), 2, Len(lines_of(strip(txt))) - 1),
              "\n")
    ELSE txt

\* "looks_like_inline_code = ('\n' in desc_clean) and (...)"
looks_like_inline_code(desc_clean) ==
    /\ contains(desc_clean, <<"\n">>)
    /\ \/ contains(desc_clean, <<"{">>) /\ contains(desc_clean, <<"}">>)
       \/ StartsWith(lstrip(desc_clean), <<"/", "*">>)
       \/ StartsWith(lstrip(desc_clean),
                     <<"<", "!", "D", "O", "C", "T", "Y", "P", "E">>)
       \/ StartsWith(lstrip(desc_clean), <<"i", "m", "p", "o", "r", "t", " ">>)
       \/ StartsWith(lstrip(desc_clean), DiffHead)

\* _extract_new_from_unified_diff: the lines it keeps of the patch
RECURSIVE diff_out(_)
diff_out(lines) ==
    IF lines = <<>> THEN <<>>
    ELSE IF Head(lines) = <<>> THEN diff_out(Tail(lines))
    ELSE IF \/ StartsWith(Head(lines), <<"+", "+", "+">>)
            \/ StartsWith(Head(lines), <<"-", "-", "-">>)
            \/ StartsWith(Head(lines), <<"@", "@">>)
    THEN diff_out(Tail(lines))
    ELSE IF Head(lines)[1] \in {"+", " "}
    THEN <<Tail(Head(lines))>> \o diff_out(Tail(lines))
    ELSE IF Head(lines)[1] = "-" THEN diff_out(Tail(lines))
    ELSE <<Head(lines)>> \o diff_out(Tail(lines))

\* _extract_new_from_unified_diff
_extract_new_from_unified_diff(patch_text) ==
    Join(diff_out(lines_of(patch_text)), "\n") \o
        (IF EndsWith(patch_text, <<"\n">>) THEN <<"\n">> ELSE <<>>)

\* the description of a MODIFY_FILE action: "if not description.strip()"
\* a fallback in plain words is used
description(action) ==
    IF strip(action.rest) = <<>> THEN Desc ELSE action.rest

\* MODIFY_FILE after apply_modification_with_patch returned a for the
\* content generated with modification_prompt_1
ModifyApplied(st, action, a) ==
    [st |-> Applied(Asked(Ran(st, action, "apply_modification_with_patch"),
                          "modification_prompt_1"), a),
     res |-> a.res]

\* ... and after the retry with modification_prompt_2 returned b
ModifyRetried(st, b) ==
    [st |-> Applied(Asked(st, "modification_prompt_2"), b), res |-> b.res]

\* "if success and 'No changes detected' in message": one more generation
ModifyRetry(p, action, original_content, g) ==
    IF p.res.status = "Success" /\ p.res.msg = "No changes detected"
    THEN ModifyRetried(p.st,
             apply_modification_with_patch(p.st.fs, action.first,
                                           original_content, g))
    ELSE p

\* one generate-and-apply pass of MODIFY_FILE over the content read at the
\* start of the action
ModifyPass(st, action, original_content, g) ==
    IF g = <<>>
    THEN [st |-> Asked(st, "modification_prompt_1"),
          res |-> Res("Error", "LLM failed to generate content for modification")]
    ELSE ModifyRetry(
             ModifyApplied(st, action,
                 apply_modification_with_patch(st.fs, action.first,
                                               original_content, g)),
             action, original_content, g)

\* MODIFY_FILE after the last pass returned p
ModifyDone(p, action, thr) ==
    AfterResult(p.st, H_MODIFY_FILE, action.first, p.res, thr)

\* the except clause of the action loop
Excepted(st) == Report(st, Res("Exception", "An exception occurred while processing"))

\* MODIFY_FILE with the description as the new content ("Treat
\* description as the intended full file content"): it is applied, and the
\* generate-and-apply pass that follows the branches runs after it
ModifyInline(st, action, o, thr, original_content, desc_clean) ==
    ModifyDone(
        ModifyPass(
            Applied(Ran(st, action, "apply_modification_with_patch"),
                    apply_modification_with_patch(st.fs, action.first,
                                                  original_content, desc_clean)),
            action, original_content, o.g1),
        action, thr)

\* MODIFY_FILE with a unified diff: the new content is taken from the
\* patch and applied; the generation that follows reads
\* modification_prompt_1, which this branch has not assigned, and the
\* UnboundLocalError ends the action in the loop's except clause
ModifyDiff(st, action, original_content, desc_clean) ==
    Excepted(
        Applied(Ran(st, action, "apply_modification_with_patch"),
                apply_modification_with_patch(
                    st.fs, action.first, original_content,
                    _extract_new_from_unified_diff(desc_clean))))

\* MODIFY_FILE after the target was read: the branches on the description
ModifyBranches(st, action, o, thr, original_content, desc_clean) ==
    IF looks_like_inline_code(desc_clean)
       /\ ~StartsWith(lstrip(desc_clean), DiffHead)
    THEN ModifyInline(st, action, o, thr, original_content, desc_clean)
    ELSE IF StartsWith(lstrip(desc_clean), DiffHead)
    THEN ModifyDiff(st, action, original_content, desc_clean)
    ELSE ModifyDone(
             ModifyPass(ModifyPass(st, action, original_content, o.g1).st,
                        action, original_content, o.g2),
             action, thr)

\* a mutant of ModifyRead: a target that could not be read is modified as
\* an empty file
ModifyRead_no_check(st, action, o, thr, original_content) ==
    ModifyBranches(st, action, o, thr, original_content.data,
                   _strip_code_fences(description(action)))

\* MODIFY_FILE after read_file returned original_content: the
\* generate-and-apply pass is written twice in the code and both run
ModifyRead(st, action, o, thr, original_content) ==
    IF original_content.status = "None"
    THEN Report(st, Res("Error",
             "Cannot modify: it does not exist or cannot be read"))
    ELSE ModifyBranches(st, action, o, thr, original_content.data,
                        _strip_code_fences(description(action)))

\* MODIFY_FILE::path::description
do_MODIFY_FILE(st, action, o, thr) ==
    ModifyRead(st, action, o, thr, read_file(st.fs, action.first).res)

\* "path_to_list = path if path else '.'"
path_to_list(action) == IF action.first = <<>> THEN Dot ELSE action.first

\* the result reported for a listing t
ListingResult(t, shown) == IF t.status # "Error" THEN Res("Success", shown) ELSE t

\* SHOW_TREE::path and LIST_PATHS::path
do_SHOW_TREE(st, action, thr) ==
    AfterResult(Ran(st, action, "tree_directory"), H_SHOW_TREE,
                path_to_list(action),
                ListingResult(tree_directory(st.fs, path_to_list(action)).res,
                              "Displayed directory structure"), thr)

do_LIST_PATHS(st, action, thr) ==
    AfterResult(Ran(st, action, "list_path"), H_LIST_PATHS,
                path_to_list(action),
                ListingResult(list_path(st.fs, path_to_list(action)).res,
                              "Listed paths"), thr)

\* FINISH::message
do_FINISH(st, action) ==
    [Report(st, Res("Finish", "")) EXCEPT !.fin = TRUE, !.brk = TRUE]

\* a workspace operation that returns a status message, or raises
StoreOp(st, action, op, path, r, thr) ==
    IF r.res.status = "Raise"
    THEN Excepted([Ran(st, action, op) EXCEPT !.fs = r.fs])
    ELSE AfterResult([Ran(st, action, op) EXCEPT !.fs = r.fs],
                     action.command_candidate, path, r.res, thr)

\* a mutant of do_CREATE_FILE: the check for an existing file is left out
do_CREATE_FILE_no_check(st, action, thr) ==
    IF action.first \in st.created_paths
    THEN Skip(st, "Skipping CREATE_FILE (already handled)", thr)
    ELSE StoreOp(st, action, "create_file", action.first,
                 create_file(st.fs, action.first), thr)

\* CREATE_FILE::path
do_CREATE_FILE(st, action, thr) ==
    IF read_file(st.fs, action.first).res.status # "None"
    THEN Report(st, Res("Error",
             "CREATE_FILE rejected for existing file. File already exists. Use MODIFY_FILE"))
    ELSE IF action.first \in st.created_paths
    THEN Skip(st, "Skipping CREATE_FILE (already handled)", thr)
    ELSE StoreOp(st, action, "create_file", action.first,
                 create_file(st.fs, action.first), thr)

\* EXECUTE and EXECUTE_INPUT after the shell returned r for cmd
ShellOp(st, action, op, cmd, r, thr) ==
    AfterResult([Ran(st, action, op) EXCEPT
                    !.spawned = IF r.spawned THEN Append(@, cmd) ELSE @,
                    !.audited = IF r.audit THEN @ + 1 ELSE @],
                action.command_candidate, cmd, r.res, thr)

\* EXECUTE::command, for a command that is not a Python interpreter (the
\* one-time "python --version" probe is for commands that start with python)
do_EXECUTE(st, action, o, e, thr) ==
    IF strip(action.first) = <<>>
    THEN AfterResult(st, H_EXECUTE, <<>>,
             Res("Error", "EXECUTE requires a non-empty command"), thr)
    ELSE ShellOp(st, action, "run_shell", strip(action.first),
                 run_shell(e, strip(action.first), o.sh), thr)

\* EXECUTE_INPUT::command::stdin
do_EXECUTE_INPUT(st, action, o, e, thr) ==
    IF strip(action.first) = <<>>
    THEN AfterResult(st, H_EXECUTE_INPUT, <<>>,
             Res("Error", "EXECUTE_INPUT requires a command"), thr)
    ELSE ShellOp(st, action, "run_shell_with_input", strip(action.first),
                 run_shell_with_input(e, strip(action.first), action.rest, o.sh),
                 thr)

\* the else branch of the header chain: an unknown header is ignored
do_unknown(st, action) ==
    Report(st, Res("Warning", "Unknown or unsupported command header ignored"))

\* the header chain of the action loop
HeaderChain(s1, action, o, e, thr) ==
    CASE action.command_candidate = H_WRITE_FILE -> do_WRITE_FILE(s1, action, o, thr)
      [] action.command_candidate = H_READ_FILE -> do_READ_FILE(s1, action, thr)
      [] action.command_candidate = H_MODIFY_FILE -> do_MODIFY_FILE(s1, action, o, thr)
      [] action.command_candidate = H_SHOW_TREE -> do_SHOW_TREE(s1, action, thr)
      [] action.command_candidate = H_LIST_PATHS -> do_LIST_PATHS(s1, action, thr)
      [] action.command_candidate = H_FINISH -> do_FINISH(s1, action)
      [] action.command_candidate = H_CREATE_DIRECTORY ->
           StoreOp(s1, action, "create_directory", action.first,
                   create_directory(s1.fs, action.first), thr)
      [] action.command_candidate = H_CREATE_FILE -> do_CREATE_FILE(s1, action, thr)
      [] action.command_candidate = H_DELETE_PATH ->
           StoreOp(s1, action, "delete_item", action.first,
                   delete_item(s1.fs, action.first), thr)
      [] action.command_candidate = H_MOVE_PATH ->
           StoreOp(s1, action, "move_item", action.first,
                   move_item(s1.fs, action.first, action.rest), thr)
      [] action.command_candidate = H_EXECUTE -> do_EXECUTE(s1, action, o, e, thr)
      [] action.command_candidate = H_EXECUTE_INPUT ->
           do_EXECUTE_INPUT(s1, action, o, e, thr)
      [] OTHER -> do_unknown(s1, action)

\* one turn of the action loop: the duplicate guard, then the header chain
ExecAction(st, action, o, e) ==
    IF action.line \in st.executed_signatures
    THEN Skip([st EXCEPT !.taken = Append(@, action.line)],
              "Skipping duplicate action already executed",
              early_noop_threshold(e))
    ELSE HeaderChain([st EXCEPT !.taken = Append(@, action.line),
                                !.executed_signatures = @ \cup {action.line}],
                     action, o, e, early_noop_threshold(e))

\* for action in plan_lines, until a break
RECURSIVE RunActions(_, _, _, _)
RunActions(st, plan_lines, o, e) ==
    IF plan_lines = <<>> \/ st.brk THEN st
    ELSE RunActions(ExecAction(st, Head(plan_lines), o, e), Tail(plan_lines), o, e)

\* a mutant of FilterAllowed: every line with '::' is kept
FilterNothing(plan_lines) == plan_lines

\* "Filter only allowed headers to avoid executing/logging unsupported ones"
HeaderAllowed(pl) == pl.hdr \in allowed_headers
FilterAllowed(plan_lines) == SelectSeq(plan_lines, HeaderAllowed)

\* a mutant of SingleAction: every action of the block is kept
SingleAction_keep_all(plan_lines) == plan_lines

\* "Hard-enforce exactly one actionable command per step"
SingleAction(plan_lines) ==
    IF Len(plan_lines) > 1 THEN SubSeq(plan_lines, 1, 1) ELSE plan_lines

\* what one call of the dispatcher leaves behind for its caller and for
\* the user: the counts of the block's lines, the warnings raised before
\* the action loop, and what the loop did
NoOutcome ==
    [ empty |-> FALSE, responses |-> 0, unknown |-> {}, actions |-> 0,
      too_many |-> FALSE, single |-> FALSE, policy_log |-> FALSE,
      taken |-> <<>>, ran |-> <<>>, results |-> <<>>, spawned |-> <<>>,
      audited |-> 0, llm |-> 0, prompts |-> <<>>, applied |-> <<>>,
      noop_streak |-> 0, auto |-> FALSE, fin |-> FALSE ]

\* "if line.strip()", "if '::' not in line" and its else
NotBlank(l) == l.line # <<>>
IsResponse(l) == ~l.is_action
IsAction(l) == l.is_action

\* "if len(plan_lines) > MAX_COMMANDS_PER_STEP: plan_lines = plan_lines[:MAX]"
Capped(plan_lines, max) ==
    IF Len(plan_lines) > max THEN SubSeq(plan_lines, 1, max) ELSE plan_lines

\* the dispatcher's outcome once its action loop has ended in state st
Outcome(response_lines, plan_lines, filtered_plan, capped, max, st) ==
    [ fs |-> st.fs,
      out |->
        [ empty |-> FALSE,
          responses |-> Len(response_lines),
          unknown |-> { plan_lines[i].line : i \in
                          { j \in 1..Len(plan_lines) :
                              plan_lines[j].hdr \notin allowed_headers } },
          actions |-> Len(filtered_plan),
          too_many |-> Len(filtered_plan) > max,
          single |-> Len(capped) > 1,
          policy_log |-> Len(capped) > 1,
          taken |-> st.taken, ran |-> st.ran, results |-> st.results,
          spawned |-> st.spawned, audited |-> st.audited, llm |-> st.llm,
          prompts |-> st.prompts, applied |-> st.applied,
          noop_streak |-> st.noop_streak, auto |-> st.auto,
          fin |-> st.fin ] ]

\* the dispatcher on the action lines it keeps, capped at max
DispatchFiltered(f, e, o, response_lines, plan_lines, filtered_plan, max) ==
    Outcome(response_lines, plan_lines, filtered_plan,
            Capped(filtered_plan, max), max,
            RunActions(DispState0(f),
                       SingleAction(Capped(filtered_plan, max)), o, e))

\* the dispatcher on the stripped, non-blank lines of the plan
DispatchLines(f, e, o, all_lines) ==
    DispatchFiltered(f, e, o, SelectSeq(all_lines, IsResponse),
                     SelectSeq(all_lines, IsAction),
                     FilterAllowed(SelectSeq(all_lines, IsAction)),
                     MAX_COMMANDS_PER_STEP(e))

\* agent._generate_execution_renderables(plan): the file system it leaves
\* and its outcome
_generate_execution_renderables(f, e, plan_text, o) ==
    IF plan_text = <<>>
    THEN [fs |-> f, out |-> [NoOutcome EXCEPT !.empty = TRUE]]
    ELSE DispatchLines(f, e, o,
             SelectSeq([i \in 1..Len(plan_text) |-> Parsed(plan_text[i])],
                       NotBlank))

\* a line with '::' and an allowed header
IsValidCommand(l) == l.is_action /\ HeaderAllowed(l)

\* agent._has_valid_command
_has_valid_command(plan_text) ==
    \E i \in 1..Len(plan_text) : IsValidCommand(Parsed(plan_text[i]))

\* the loop's test for an early finish:
\* any(line.strip().upper().startswith("FINISH::") for line in plan.splitlines())
finished_early(plan_text) ==
    \E i \in 1..Len(plan_text) : Parsed(plan_text[i]).finish_prefix

---------------------------------------------------------------------------
(* CredentialStore: the credentials file of config.py, the round-robin     *)
(* selection get_next_available_key and the blacklist. A key id is a       *)
(* number from 1 on, time is counted in whole seconds.                     *)

MaxKeys == 3
MaxTime == 3

KeyIds == 1..MaxKeys

\* the durations keys are blacklisted for
Durations == {1, 2}

\* Python's None, and the empty dict
None == <<>>
EmptyDict == [k \in {} |-> 0]

\* the api key stored under an id
KeyVal(key_id) == 100 + key_id

\* config._default_store: default is 0 for None
_default_store ==
    [ default |-> 0, keys |-> EmptyDict, rr_index |-> 0, order |-> <<>>,
      blacklist |-> EmptyDict ]

\* the credentials file after the keys 1 .. n have been added with
\* add_api_key, with the cursor at rr_index
StoreWithKeys(n, rr_index) ==
    [ default |-> IF n = 0 THEN 0 ELSE 1,
      keys |-> [k \in 1..n |-> KeyVal(k)],
      rr_index |-> rr_index,
      order |-> [i \in 1..n |-> i],
      blacklist |-> EmptyDict ]

\* store.get("keys", {}).get(key_id)
key_val_of(st, key_id) ==
    IF key_id \in DOMAIN st.keys THEN st.keys[key_id] ELSE None

\* a mutant of without_expired: no entry is ever taken off the blacklist
without_expired_none(blacklist, current_time) == blacklist

\* "expired_keys = [k for k, v in blacklist.items() if v <= current_time]"
\* and their deletion
without_expired(blacklist, current_time) ==
    [k \in {x \in DOMAIN blacklist : ~(blacklist[x] <= current_time)} |->
        blacklist[k]]

\* a mutant of key_available: the blacklist is not looked at
key_available_always(st, key_id) == TRUE

\* "if key_id not in blacklist"
key_available(st, key_id) == key_id \notin DOMAIN st.blacklist

\* "while attempts < max_attempts": the key at the cursor is taken unless
\* it is blacklisted, and the cursor advances; the store is saved on return
RECURSIVE try_keys(_, _, _)
try_keys(st, attempts, max_attempts) ==
    IF ~(attempts < max_attempts) THEN [store |-> st, ret |-> None]
    ELSE IF key_available(st, st.order[(st.rr_index % Len(st.order)) + 1])
    THEN [store |-> [st EXCEPT !.rr_index =
                        ((st.rr_index % Len(st.order)) + 1) % Len(st.order)],
          ret |-> <<st.order[(st.rr_index % Len(st.order)) + 1],
                    key_val_of(st, st.order[(st.rr_index % Len(st.order)) + 1])>>]
    ELSE try_keys([st EXCEPT !.rr_index =
                      ((st.rr_index % Len(st.order)) + 1) % Len(st.order)],
                  attempts + 1, max_attempts)

\* a mutant of get_next_available_key: every call starts at the first key
get_next_available_key_from_first(st, current_time) ==
    IF st.order = <<>> THEN [store |-> st, ret |-> None]
    ELSE try_keys([st EXCEPT !.blacklist = without_expired(@, current_time),
                             !.rr_index = 0],
                  0, Len(st.order))

\* config.get_next_available_key on the file st at current_time: the file
\* it leaves, and (key_id, key_val) or None
get_next_available_key(st, current_time) ==
    IF st.order = <<>> THEN [store |-> st, ret |-> None]
    ELSE try_keys([st EXCEPT !.blacklist = without_expired(@, current_time)],
                  0, Len(st.order))

\* a mutant of blacklist_key: the entry is not written
blacklist_key_not_saved(st, key_id, duration_seconds, current_time) == st

\* config.blacklist_key on the file st at current_time: the file it leaves
blacklist_key(st, key_id, duration_seconds, current_time) ==
    [st EXCEPT !.blacklist =
        [k \in DOMAIN @ \cup {key_id} |->
            IF k = key_id THEN current_time + duration_seconds ELSE @[k]]]

\* config.get_blacklist_status: the seconds each blacklisted key has left
get_blacklist_status(st, current_time) ==
    [k \in {x \in DOMAIN st.blacklist : st.blacklist[x] - current_time > 0} |->
        st.blacklist[k] - current_time]

NoCred == [op |-> "", key |-> 0, dur |-> 0, at |-> 0, rr |-> 0, ret |-> None]

\* llm.py before generate_text_resilient is called: no model is configured
NoInvocation ==
    [ pc |-> "idle", purpose |-> "", model |-> 0, max_attempts |-> 0,
      attempt |-> 0, original_request |-> FALSE, delay |-> 0, slept |-> <<>>,
      enabled_attempts |-> 0, enabled_attempt |-> 0,
      last_error |-> None, _last_error_rate_limited |-> FALSE,
      text |-> "", ret |-> "", used |-> 0, outcome |-> "", raised |-> None,
      starved |-> FALSE ]

\* workspace.py before a shell operation is called: no session, no process,
\* an empty audit log
NoShell ==
    [ _SESSIONS |-> EmptyDict, _SESSION_COUNTER |-> 0, issued |-> <<>>,
      procs |-> <<>>, log |-> <<>>, pc |-> "idle", op |-> "",
      cur |-> [proc |-> 0, cmd |-> <<>>, input |-> <<>>, start |-> 0,
               timeout |-> 0],
      ret |-> [status |-> "", msg |-> "", timeout |-> 0] ]

\* the engine processes that can run at once, and their state before any of
\* them has called an operation on the credentials file
Runs == {1, 2}
NoRuns ==
    [ proc |-> [p \in Runs |->
                   [pc |-> "idle", op |-> "", key |-> 0, dur |-> 0,
                    store |-> _default_store, calls |-> 0]],
      overwritten |-> FALSE ]

\* no credentials file has been written, no operation on it called
NoCredentials ==
    /\ store = _default_store
    /\ now = 0
    /\ cred = NoCred
    /\ handed = <<>>
    /\ cooled = [k \in KeyIds |-> 0]
    /\ inv = NoInvocation
    /\ sh = NoShell
    /\ runs = NoRuns

\* The credential store: the file holds the keys 1 .. n, for any n up to
\* MaxKeys, with the cursor at any value up to MaxKeys.
InitCred ==
    /\ chkPath = <<>>
    /\ chkVerdict = FALSE
    /\ chkDone = FALSE
    /\ fs = InitFs
    /\ call = NoCall
    /\ res = NoRes
    /\ env = DefaultEnv
    /\ plan = <<>>
    /\ out = NoOutcome
    /\ repeat = FALSE
    /\ pc = "prompt"
    /\ action_idx = 0
    /\ noopRun = 0
    /\ finishSeen = FALSE
    /\ ranAfterFinish = FALSE
    /\ plan_calls = 0
    /\ store \in { StoreWithKeys(n, r) : n \in 0..MaxKeys, r \in 0..MaxKeys }
    /\ now = 0
    /\ cred = NoCred
    /\ handed = <<>>
    /\ cooled = [k \in KeyIds |-> 0]
    /\ inv = NoInvocation
    /\ sh = NoShell
    /\ runs = NoRuns

\* the last MaxKeys ids of h
LastHanded(h) ==
    IF Len(h) > MaxKeys THEN SubSeq(h, Len(h) - MaxKeys + 1, Len(h)) ELSE h

\* get_next_available_key() returned r
KeySelected(r) ==
    /\ store' = r.store
    /\ cred' = [op |-> "get_next_available_key", key |-> 0, dur |-> 0,
                at |-> now, rr |-> store.rr_index, ret |-> r.ret]
    /\ handed' = IF r.ret = None THEN handed
                 ELSE LastHanded(Append(handed, r.ret[1]))
    /\ UNCHANGED <<now, cooled, inv, sh, runs>>

\* a call get_next_available_key()
CredGetNext ==
    /\ KeySelected(get_next_available_key(store, now))
    /\ UNCHANGED <<sandboxVars, storeVars, dispatchVars, loopVars>>

\* a call blacklist_key(k, d)
CredBlacklist ==
    /\ \E k \in KeyIds, d \in Durations :
          /\ store' = blacklist_key(store, k, d, now)
          /\ cred' = [op |-> "blacklist_key", key |-> k, dur |-> d,
                      at |-> now, rr |-> store.rr_index, ret |-> None]
          /\ cooled' = [cooled EXCEPT ![k] = now + d]
    /\ handed' = <<>>
    /\ UNCHANGED <<now, inv, sh, runs, sandboxVars, storeVars, dispatchVars, loopVars>>

\* a call get_blacklist_status()
CredStatus ==
    /\ cred' = [op |-> "get_blacklist_status", key |-> 0, dur |-> 0,
                at |-> now, rr |-> store.rr_index,
                ret |-> get_blacklist_status(store, now)]
    /\ UNCHANGED <<store, now, handed, cooled, inv, sh, runs, sandboxVars, storeVars,
                   dispatchVars, loopVars>>

\* a second passes; the history of selections starts over when an entry of
\* the blacklist expires with it
Tick ==
    /\ now < MaxTime
    /\ now' = now + 1
    /\ handed' = IF \E k \in DOMAIN store.blacklist : store.blacklist[k] <= now + 1
                 THEN <<>> ELSE handed
    /\ UNCHANGED <<store, cred, cooled, inv, sh, runs, sandboxVars, storeVars, dispatchVars,
                   loopVars>>

NextCred ==
    \/ CredGetNext
    \/ CredBlacklist
    \/ CredStatus
    \/ Tick

SpecCred == InitCred /\ [][NextCred]_vars

----------------------------------------------------------------------------
(* The key management of the credential store (config.py) and the key      *)
(* rotation of the invoker (llm.py).                                       *)

\* config.add_api_key on the file st: the file it leaves
add_api_key(st, key_id, api_key) ==
    [st EXCEPT
        !.keys = [k \in DOMAIN @ \cup {key_id} |->
                     IF k = key_id THEN api_key ELSE @[k]],
        !.order = IF key_id \notin DOMAIN st.keys THEN Append(@, key_id) ELSE @,
        !.default = IF @ = 0 THEN key_id ELSE @]

\* list.remove(x): the list without the first x
list_remove(s, x) ==
    SelectSeq(s, LAMBDA y : y # x)

\* a mutant of removed_cursor: the cursor is left where it was
removed_cursor_kept(rr_index, order) == rr_index

\* "Reset rr_index if out of bounds"
removed_cursor(rr_index, order) ==
    IF rr_index >= Len(order) THEN 0 ELSE rr_index

\* remove_api_key without "Adjust default if needed"
remove_api_key_default_kept(st, key_id) ==
    IF key_id \notin DOMAIN st.keys THEN st
    ELSE [st EXCEPT
            !.keys = [k \in DOMAIN @ \ {key_id} |-> @[k]],
            !.order = list_remove(@, key_id),
            !.rr_index = removed_cursor(@, list_remove(st.order, key_id))]

\* config.remove_api_key on the file st: the file it leaves
remove_api_key(st, key_id) ==
    IF key_id \notin DOMAIN st.keys THEN st
    ELSE [st EXCEPT
            !.keys = [k \in DOMAIN @ \ {key_id} |-> @[k]],
            !.order = list_remove(@, key_id),
            !.default = IF @ = key_id
                        THEN (IF list_remove(st.order, key_id) # <<>>
                              THEN list_remove(st.order, key_id)[1] ELSE 0)
                        ELSE @,
            !.rr_index = removed_cursor(@, list_remove(st.order, key_id))]

\* config.set_default_api_key on the file st: the file it leaves
set_default_api_key(st, key_id) ==
    IF key_id \notin DOMAIN st.keys THEN st
    ELSE [st EXCEPT !.default = key_id]

\* config.next_api_key on the file st: the file it leaves, and
\* (key_id, key_val) or None
next_api_key(st) ==
    IF st.order = <<>> THEN [store |-> st, ret |-> None]
    ELSE [store |-> [st EXCEPT !.rr_index =
                        ((st.rr_index % Len(st.order)) + 1) % Len(st.order)],
          ret |-> <<st.order[(st.rr_index % Len(st.order)) + 1],
                    key_val_of(st, st.order[(st.rr_index % Len(st.order)) + 1])>>]

\* config.get_enabled_keys, which llm.py calls: the records of the keys in
\* their order (the file has no flag that disables a key)
get_enabled_keys(st) ==
    [i \in 1..Len(st.order) |->
        [id |-> st.order[i], key |-> key_val_of(st, st.order[i])]]

\* config.get_rr_index, which llm.py calls
get_rr_index(st) == st.rr_index

\* config.set_rr_index, which llm.py calls: the cursor wraps modulo the
\* number of keys
set_rr_index(st, idx) ==
    [st EXCEPT !.rr_index = IF st.order = <<>> THEN 0 ELSE idx % Len(st.order)]

\* "no key": what _get_next_enabled_key returns for None, and the key of
\* a model that is None
NoKey == 0

\* llm._get_next_enabled_key on the file st: the file it leaves, and the
\* key or NoKey
_get_next_enabled_key(st) ==
    IF get_enabled_keys(st) = <<>> THEN [store |-> st, ret |-> NoKey]
    ELSE [store |-> set_rr_index(st, get_rr_index(st) + 1),
          ret |-> get_enabled_keys(st)[
                      (get_rr_index(st) % Len(get_enabled_keys(st))) + 1].key]

\* The key management starts with no credentials file.
InitKeys ==
    /\ chkPath = <<>>
    /\ chkVerdict = FALSE
    /\ chkDone = FALSE
    /\ fs = InitFs
    /\ call = NoCall
    /\ res = NoRes
    /\ env = DefaultEnv
    /\ plan = <<>>
    /\ out = NoOutcome
    /\ repeat = FALSE
    /\ pc = "prompt"
    /\ action_idx = 0
    /\ noopRun = 0
    /\ finishSeen = FALSE
    /\ ranAfterFinish = FALSE
    /\ plan_calls = 0
    /\ NoCredentials

\* the call op(key) on the credentials file has left the file st and
\* returned ret
KeysCalled(op, key, st, ret) ==
    /\ store' = st
    /\ cred' = [op |-> op, key |-> key, dur |-> 0, at |-> now,
                rr |-> store.rr_index, ret |-> ret]
    /\ UNCHANGED <<now, handed, cooled, inv, sh, runs, sandboxVars, storeVars, dispatchVars,
                   loopVars>>

\* a call add_api_key(k, key)
KeysAdd ==
    \E k \in KeyIds :
        KeysCalled("add_api_key", k, add_api_key(store, k, KeyVal(k)), None)

\* a call remove_api_key(k)
KeysRemove ==
    \E k \in KeyIds :
        KeysCalled("remove_api_key", k, remove_api_key(store, k), None)

\* a call set_default_api_key(k)
KeysSetDefault ==
    \E k \in KeyIds :
        KeysCalled("set_default_api_key", k, set_default_api_key(store, k), None)

\* a call next_api_key()
KeysNext ==
    KeysCalled("next_api_key", 0, next_api_key(store).store,
               next_api_key(store).ret)

\* a call get_next_available_key()
KeysGetNext ==
    KeysCalled("get_next_available_key", 0,
               get_next_available_key(store, now).store,
               get_next_available_key(store, now).ret)

\* a call blacklist_key(k) with the shortest duration
KeysBlacklist ==
    \E k \in KeyIds :
        KeysCalled("blacklist_key", k, blacklist_key(store, k, 1, now), None)

\* the invoker takes its next key
KeysRotate ==
    KeysCalled("_get_next_enabled_key", 0, _get_next_enabled_key(store).store,
               _get_next_enabled_key(store).ret)

NextKeys ==
    \/ KeysAdd
    \/ KeysRemove
    \/ KeysSetDefault
    \/ KeysNext
    \/ KeysGetNext
    \/ KeysBlacklist
    \/ KeysRotate

SpecKeys == InitKeys /\ [][NextKeys]_vars

----------------------------------------------------------------------------
(* ResilientInvoker: llm.generate_text and llm.generate_text_resilient.    *)

\* the largest value PAI_MAX_INFERENCE_RETRIES is set to
MaxRetriesEnv == 6

\* PAI_MAX_INFERENCE_RETRIES: <<n>> for the number n; None stands for a
\* variable that is unset or not a number, which is not drawn here
RetriesEnvs == { <<n>> : n \in {0, 3, MaxRetriesEnv} }

\* the messages of the exceptions a planner call raises
Err429 == <<"4", "2", "9", " ", "Q", "u", "o", "t", "a">>
ErrReset == <<"r", "e", "s", "e", "t">>
PlannerErrors == {Err429, ErrReset}
\* the message of an exception of genai.configure
ErrConfigure == <<"b", "a", "d", " ", "k", "e", "y">>

\* what a planner call gives: an exception, or a text that after the
\* cleaning of generate_text is blank, starts with "Error:", or is an answer
PlannerTexts == {"answer", "", "Error:"}

keywords ==
    { <<"r","a","t","e"," ","l","i","m","i","t">>, <<"q","u","o","t","a">>,
      <<"4","2","9">>,
      <<"r","e","s","o","u","r","c","e"," ","h","a","s"," ","b","e","e","n",
        " ","e","x","h","a","u","s","t","e","d">>,
      <<"e","x","c","e","e","d","e","d">>,
      <<"q","u","o","t","a","_","e","x","c","e","e","d","e","d">>,
      <<"t","o","o"," ","m","a","n","y"," ","r","e","q","u","e","s","t","s">> }

\* llm._is_rate_limit_error on the message of the exception
_is_rate_limit_error(err) ==
    \E k \in keywords : contains(lower(err), k)

\* config.get_api_key: the default key, NoKey for None
get_api_key(st) ==
    IF st.default = 0 THEN NoKey ELSE st.keys[st.default]

\* llm.set_runtime_model in the state s = [store, inv]; cfg_ok tells
\* whether _configure_with_key succeeds
set_runtime_model(s, cfg_ok) ==
    [s EXCEPT
        !.store = _get_next_enabled_key(s.store).store,
        !.inv.model =
            IF _get_next_enabled_key(s.store).ret # NoKey
            THEN (IF cfg_ok THEN _get_next_enabled_key(s.store).ret ELSE NoKey)
            ELSE (IF cfg_ok
                  THEN get_api_key(_get_next_enabled_key(s.store).store)
                  ELSE NoKey)]

\* generate_text returns text to its caller
generate_text_returned(s, text) ==
    [s EXCEPT !.inv.pc = "returned", !.inv.text = text]

\* generate_text up to its first call of the planner: the flags are reset
\* and a model is configured if there is none
generate_text_configured(s) ==
    IF s.inv.model = NoKey
    THEN generate_text_returned(s, "Error:")
    ELSE [s EXCEPT !.inv.pc = "call",
                   !.inv.enabled_attempts =
                       Max(1, Len(get_enabled_keys(s.store))),
                   !.inv.enabled_attempt = 0]

generate_text_begin(s, purpose, cfg_ok) ==
    generate_text_configured(
        IF s.inv.model = NoKey
        THEN set_runtime_model(
                 [s EXCEPT !.inv.purpose = purpose, !.inv.last_error = None,
                           !.inv._last_error_rate_limited = FALSE], cfg_ok)
        ELSE [s EXCEPT !.inv.purpose = purpose, !.inv.last_error = None,
                       !.inv._last_error_rate_limited = FALSE])

\* generate_text after its loop over the enabled keys has ended
generate_text_failed(s) ==
    generate_text_returned(
        [s EXCEPT !.inv._last_error_rate_limited =
                      @ \/ _is_rate_limit_error(s.inv.last_error)], "")

\* "for attempt in range(max_attempts)": the next turn, or the end
generate_text_continue(s) ==
    IF s.inv.enabled_attempt + 1 < s.inv.enabled_attempts
    THEN [s EXCEPT !.inv.enabled_attempt = @ + 1]
    ELSE generate_text_failed(s)

\* generate_text after _get_next_enabled_key gave next_key
generate_text_rotated(s, next_key, cfg_ok) ==
    IF next_key = NoKey THEN generate_text_failed(s)
    ELSE IF cfg_ok
    THEN generate_text_continue([s EXCEPT !.inv.model = next_key])
    ELSE generate_text_continue([s EXCEPT !.inv.last_error = ErrConfigure])

\* "except Exception as e" of generate_text
generate_text_except(s, e, cfg_ok) ==
    generate_text_rotated(
        [s EXCEPT !.store = _get_next_enabled_key(s.store).store,
                  !.inv.last_error = e,
                  !.inv._last_error_rate_limited =
                      @ \/ _is_rate_limit_error(e)],
        _get_next_enabled_key(s.store).ret, cfg_ok)

\* generate_text_resilient returns ret
resilient_return(s, ret) ==
    [s EXCEPT !.inv.pc = "done", !.inv.ret = ret]

\* generate_text_resilient after the generate_text call of an assessment
\* has returned: _is_task_likely_complete is followed by "return text" on
\* both branches, _should_request_continuation by 'return ""'
assessed(s, answer) ==
    IF s.inv.pc # "returned" THEN s
    ELSE resilient_return(s, IF s.inv.purpose = "complete" THEN answer ELSE "")

\* the clamp of generate_text_resilient
max_inference_retries(v) ==
    IF v = None THEN 25 ELSE Max(1, Min(v[1], 50))

\* generate_text_resilient after generate_text has returned for an attempt.
\* At attempt 15 _should_continue_inference returns True without a call of
\* the planner: responses_history holds ERROR_ATTEMPT entries only, for a
\* good answer has ended the loop.
attempted(s, cfg_ok) ==
    IF s.inv.pc # "returned" THEN s
    ELSE IF s.inv.text = "answer"
    THEN (IF s.inv.attempt >= 3 /\ s.inv.original_request
          THEN assessed(generate_text_begin(s, "complete", cfg_ok), "answer")
          ELSE resilient_return(s, "answer"))
    ELSE IF s.inv.attempt < s.inv.max_attempts
    THEN [s EXCEPT !.inv.pc = "sleep"]
    ELSE IF s.inv.original_request
    THEN assessed(generate_text_begin(s, "request", cfg_ok), "")
    ELSE resilient_return(s, "")

\* generate_text has returned to generate_text_resilient
resumed(s, cfg_ok) ==
    IF s.inv.purpose = "main" THEN attempted(s, cfg_ok) ELSE assessed(s, "answer")

\* every key of the file is on the blacklist at current_time
all_blacklisted(st, current_time) ==
    /\ st.order # <<>>
    /\ \A i \in 1..Len(st.order) :
           /\ st.order[i] \in DOMAIN st.blacklist
           /\ st.blacklist[st.order[i]] > current_time

\* generate_text_resilient(prompt, original_request) up to the first call
\* of the planner
generate_text_resilient(s, retries_env, original_request, current_time, cfg_ok) ==
    attempted(
        generate_text_begin(
            [s EXCEPT !.inv.max_attempts = max_inference_retries(retries_env),
                      !.inv.attempt = 1,
                      !.inv.original_request = original_request,
                      !.inv.delay = 1,
                      !.inv.slept = <<>>,
                      !.inv.ret = "",
                      !.inv.used = NoKey,
                      !.inv.outcome = "",
                      !.inv.raised = None,
                      !.inv.starved = all_blacklisted(s.store, current_time)],
            "main", cfg_ok),
        cfg_ok)

\* "time.sleep(delay); delay = min(delay * 2, 8.0)" and the next attempt
slept_and_retried(s, cfg_ok) ==
    attempted(
        generate_text_begin(
            [s EXCEPT !.inv.slept = Append(@, s.inv.delay),
                      !.inv.delay = Min(@ * 2, 8),
                      !.inv.attempt = @ + 1],
            "main", cfg_ok),
        cfg_ok)

\* the planner has been called with the model's key and has returned a
\* text (outcome "text") or raised e (outcome "raised")
planner_called(s, outcome, e) ==
    [s EXCEPT !.inv.used = s.inv.model, !.inv.outcome = outcome,
              !.inv.raised = e]

\* the invoker goes from the state [store, inv] to s
Invoked(s) ==
    /\ store' = s.store
    /\ inv' = s.inv
    /\ UNCHANGED <<now, cred, handed, cooled, sh, runs, sandboxVars, storeVars,
                   dispatchVars, loopVars>>

\* a call generate_text_resilient(prompt, original_request)
InvokeStart ==
    /\ inv.pc \in {"idle", "done"}
    /\ \E v \in RetriesEnvs, o \in BOOLEAN, cfg_ok \in BOOLEAN :
           Invoked(generate_text_resilient([store |-> store, inv |-> inv],
                                           v, o, now, cfg_ok))

\* model.generate_content(prompt) returns a text
PlannerAnswers ==
    /\ inv.pc = "call"
    /\ \E text \in PlannerTexts, cfg_ok \in BOOLEAN :
           Invoked(resumed(generate_text_returned(
                               planner_called([store |-> store, inv |-> inv],
                                              "text", None), text),
                           cfg_ok))

\* model.generate_content(prompt) raises an exception
PlannerRaises ==
    /\ inv.pc = "call"
    /\ \E e \in PlannerErrors, cfg_ok \in BOOLEAN :
           Invoked(resumed(generate_text_except(
                               planner_called([store |-> store, inv |-> inv],
                                              "raised", e), e, cfg_ok),
                           cfg_ok))

\* time.sleep(delay) returns
InvokeSlept ==
    /\ inv.pc = "sleep"
    /\ \E cfg_ok \in BOOLEAN :
           Invoked(slept_and_retried([store |-> store, inv |-> inv], cfg_ok))

\* llm.py has been imported (set_runtime_model has run once) with a
\* credentials file of up to MaxKeys keys
InitInvoke ==
    /\ chkPath = <<>>
    /\ chkVerdict = FALSE
    /\ chkDone = FALSE
    /\ fs = InitFs
    /\ call = NoCall
    /\ res = NoRes
    /\ env = DefaultEnv
    /\ plan = <<>>
    /\ out = NoOutcome
    /\ repeat = FALSE
    /\ pc = "prompt"
    /\ action_idx = 0
    /\ noopRun = 0
    /\ finishSeen = FALSE
    /\ ranAfterFinish = FALSE
    /\ plan_calls = 0
    /\ now = 0
    /\ cred = NoCred
    /\ handed = <<>>
    /\ cooled = [k \in KeyIds |-> 0]
    /\ sh = NoShell
    /\ runs = NoRuns
    /\ \E n \in 0..MaxKeys, r \in 0..MaxKeys, cfg_ok \in BOOLEAN :
          /\ r < Max(n, 1)
          /\ store = set_runtime_model(
                         [store |-> StoreWithKeys(n, r), inv |-> NoInvocation],
                         cfg_ok).store
          /\ inv = set_runtime_model(
                       [store |-> StoreWithKeys(n, r), inv |-> NoInvocation],
                       cfg_ok).inv

\* a call blacklist_key(k) before the first invocation
InvokeBlacklist ==
    /\ inv.pc = "idle"
    /\ \E k \in KeyIds : store' = blacklist_key(store, k, 1, now)
    /\ UNCHANGED <<now, cred, handed, cooled, inv, sh, runs, sandboxVars, storeVars,
                   dispatchVars, loopVars>>

NextInvoke ==
    \/ InvokeStart
    \/ PlannerAnswers
    \/ PlannerRaises
    \/ InvokeSlept
    \/ InvokeBlacklist

SpecInvoke == InitInvoke /\ [][NextInvoke]_vars

----------------------------------------------------------------------------
(* ShellExecutor: the one-shot commands and the sessions of workspace.py,  *)
(* with the processes they spawn, the clock and the audit log.             *)

\* the most processes spawned, the most lines of the audit log, and the
\* last second of the clock
MaxProcs == 2
MaxLog == 3
MaxShellTime == 3

\* PAI_SHELL_TIMEOUT: <<n>> for the number n; None stands for a variable
\* that is unset or not a number, which is not drawn here
ShellTimeouts == { <<1>>, <<2>> }

\* the environment of the shell executor
ShellEnvs ==
    { [ PAI_ALLOW_SHELL_EXEC |-> a, PAI_ALLOW_NET |-> n,
        PAI_EARLY_FINISH_NOOP |-> 3, PAI_MAX_CMDS_PER_STEP |-> 15,
        PAI_SHELL_TIMEOUT |-> t ] :
          a \in BOOLEAN, n \in BOOLEAN, t \in ShellTimeouts }

ShellCommands == {Cmd_ls, Cmd_curl}

\* "timeout_sec = int(timeout_env) if timeout_env is not None else 20",
\* 20 as well for a value below 1 or not a number
timeout_sec(v) ==
    IF v = None THEN 20 ELSE IF v[1] < 1 THEN 20 ELSE v[1]

\* a mutant of _new_session_id: the id is made of the time only
_new_session_id_time_only(counter, current_time) ==
    [counter |-> counter + 1, id |-> <<current_time, 0>>]

\* workspace._new_session_id: the counter it leaves and the id
\* f"sh-{int(time.time())}-{_SESSION_COUNTER}" as <<time, counter>>
_new_session_id(counter, current_time) ==
    [counter |-> counter + 1, id |-> <<current_time, counter + 1>>]

\* subprocess.Popen(full_cmd, ...): a running process; blocks tells that
\* it never exits on its own. Both callers start the reader threads t_out
\* and t_err right after it: readers counts the threads started, joined
\* those that have been joined; fed counts the writes to its stdin.
Popen(x, command, session, blocks) ==
    [x EXCEPT !.procs = Append(@, [cmd |-> command, state |-> "running",
                                   code |-> -1, session |-> session,
                                   blocks |-> blocks,
                                   readers |-> 2, joined |-> 0,
                                   fed |-> 0])]

\* "t_out.join(timeout=1.0); t_err.join(timeout=1.0)" for the process the
\* operation waits for: each returns after a second at the latest
join_readers(x) ==
    [x EXCEPT !.procs[x.cur.proc].joined = @ + 2]

\* a line is appended to .pai_history/shell.log
audit(x, line) == [x EXCEPT !.log = Append(@, line)]

\* the operation op returns r; timeout is the timeout its message shows
shell_returned(x, op, r, timeout) ==
    [x EXCEPT !.pc = "idle", !.op = op,
              !.ret = [status |-> r.status, msg |-> r.msg, timeout |-> timeout]]

\* run_shell / run_shell_with_input with the exit code, or with "timeout"
one_shot(e, op, command, input_text, how) ==
    IF op = "run_shell" THEN run_shell(e, command, how)
    ELSE run_shell_with_input(e, command, input_text, how)

\* run_shell / run_shell_with_input up to the wait for the process
shell_called(x, e, op, command, input_text, blocks, current_time) ==
    IF ~one_shot(e, op, command, input_text, "exit0").spawned
    THEN shell_returned([x EXCEPT !.cur = NoShell.cur], op,
                        one_shot(e, op, command, input_text, "exit0").res, 0)
    ELSE [Popen(x, command, FALSE, blocks) EXCEPT
             !.pc = "wait", !.op = op,
             !.cur = [proc |-> Len(x.procs) + 1, cmd |-> command,
                      input |-> input_text, start |-> current_time,
                      timeout |-> timeout_sec(e.PAI_SHELL_TIMEOUT)]]

\* "ret = proc.wait(timeout=0.2); break" and the rest of the operation:
\* the audit line and the result
shell_waited(x, e, current_time) ==
    shell_returned(
        IF one_shot(e, x.op, x.cur.cmd, x.cur.input,
                    IF x.procs[x.cur.proc].code = 0 THEN "exit0" ELSE "exit1").audit
        THEN audit(join_readers(x),
                   [kind |-> "CMD", cmd |-> x.cur.cmd,
                    exit |-> <<x.procs[x.cur.proc].code>>,
                    ts |-> current_time, proc |-> x.cur.proc])
        ELSE join_readers(x),
        x.op,
        one_shot(e, x.op, x.cur.cmd, x.cur.input,
                 IF x.procs[x.cur.proc].code = 0 THEN "exit0" ELSE "exit1").res,
        0)

\* a mutant of timed_out: the test is never true
timed_out_never(start, timeout, current_time) == FALSE

\* "if time.time() - start > timeout_sec"
timed_out(start, timeout, current_time) ==
    current_time - start > timeout

\* "proc.kill(); timed_out = True; break" and the rest of the operation
shell_killed(x, e, current_time) ==
    shell_returned(
        IF one_shot(e, x.op, x.cur.cmd, x.cur.input, "timeout").audit
        THEN audit(
                 join_readers([x EXCEPT !.procs[x.cur.proc].state = "killed"]),
                 [kind |-> "CMD", cmd |-> x.cur.cmd, exit |-> <<-1>>,
                  ts |-> current_time, proc |-> x.cur.proc])
        ELSE join_readers([x EXCEPT !.procs[x.cur.proc].state = "killed"]),
        x.op,
        one_shot(e, x.op, x.cur.cmd, x.cur.input, "timeout").res,
        x.cur.timeout)

\* workspace.run_shell_session_start: neither PAI_ALLOW_SHELL_EXEC nor
\* PAI_ALLOW_NET is read, and timeout_sec is computed but not used
run_shell_session_start(x, e, command, blocks, current_time) ==
    shell_returned(
        audit(
            [Popen(x, command, TRUE, blocks) EXCEPT
                !._SESSION_COUNTER =
                    _new_session_id(x._SESSION_COUNTER, current_time).counter,
                !._SESSIONS =
                    [s \in DOMAIN @ \cup
                           {_new_session_id(x._SESSION_COUNTER, current_time).id}
                       |-> IF s = _new_session_id(x._SESSION_COUNTER,
                                                  current_time).id
                           THEN Len(x.procs) + 1 ELSE @[s]],
                !.issued =
                    Append(@, _new_session_id(x._SESSION_COUNTER,
                                              current_time).id)],
            [kind |-> "START_SESSION", cmd |-> command, exit |-> None,
             ts |-> current_time, proc |-> Len(x.procs) + 1]),
        "run_shell_session_start", Res("Success", "Started session"), 0)

\* "proc.stdin.write(input_text); proc.stdin.flush()"
stdin_write(x, i) == [x EXCEPT !.procs[i].fed = @ + 1]

\* run_shell_session_input without the "proc.poll() is not None" test
run_shell_session_input_no_poll(x, session_id, input_text, current_time) ==
    IF session_id \notin DOMAIN x._SESSIONS
    THEN shell_returned(x, "run_shell_session_input",
                        Res("Error", "Session not found"), 0)
    ELSE shell_returned(
             audit(stdin_write(x, x._SESSIONS[session_id]),
                   [kind |-> "FEED_SESSION", cmd |-> input_text,
                    exit |-> None, ts |-> current_time,
                    proc |-> x._SESSIONS[session_id]]),
             "run_shell_session_input", Res("Success", "Fed input to session"), 0)

\* workspace.run_shell_session_input
run_shell_session_input(x, session_id, input_text, current_time) ==
    IF session_id \notin DOMAIN x._SESSIONS
    THEN shell_returned(x, "run_shell_session_input",
                        Res("Error", "Session not found"), 0)
    ELSE IF x.procs[x._SESSIONS[session_id]].state # "running"
    THEN shell_returned(x, "run_shell_session_input",
                        Res("Error", "Session has already exited"), 0)
    ELSE shell_returned(
             audit(stdin_write(x, x._SESSIONS[session_id]),
                   [kind |-> "FEED_SESSION", cmd |-> input_text,
                    exit |-> None, ts |-> current_time,
                    proc |-> x._SESSIONS[session_id]]),
             "run_shell_session_input", Res("Success", "Fed input to session"), 0)

\* workspace.run_shell_session_end
run_shell_session_end(x, session_id, current_time) ==
    IF session_id \notin DOMAIN x._SESSIONS
    THEN shell_returned(x, "run_shell_session_end",
                        Res("Warning", "Session not found or already closed"), 0)
    ELSE shell_returned(
             audit(
                 [x EXCEPT
                     !._SESSIONS = [s \in DOMAIN @ \ {session_id} |-> @[s]],
                     !.procs[x._SESSIONS[session_id]].state =
                         IF @ = "running" THEN "terminated" ELSE @],
                 [kind |-> "END_SESSION", cmd |-> <<>>, exit |-> None,
                  ts |-> current_time, proc |-> x._SESSIONS[session_id]]),
             "run_shell_session_end", Res("Success", "Ended session"), 0)

\* The shell executor starts with no session and no process, with any
\* setting of the policy switches and of the timeout.
InitShell ==
    /\ chkPath = <<>>
    /\ chkVerdict = FALSE
    /\ chkDone = FALSE
    /\ fs = InitFs
    /\ call = NoCall
    /\ res = NoRes
    /\ env \in ShellEnvs
    /\ plan = <<>>
    /\ out = NoOutcome
    /\ repeat = FALSE
    /\ pc = "prompt"
    /\ action_idx = 0
    /\ noopRun = 0
    /\ finishSeen = FALSE
    /\ ranAfterFinish = FALSE
    /\ plan_calls = 0
    /\ NoCredentials

\* the shell executor goes to x
ShellStep(x) ==
    /\ sh' = x
    /\ UNCHANGED <<store, now, cred, handed, cooled, inv, runs, sandboxVars,
                   storeVars, dispatchVars, loopVars>>

\* a process is spawned only while its deadline lies within the clock
HasRoom ==
    /\ Len(sh.procs) < MaxProcs
    /\ Len(sh.log) < MaxLog
    /\ now + timeout_sec(env.PAI_SHELL_TIMEOUT) < MaxShellTime

\* a call run_shell(command) or run_shell_with_input(command, input_text)
ShellExecute ==
    /\ sh.pc = "idle"
    /\ HasRoom
    /\ \E op \in {"run_shell", "run_shell_with_input"},
          command \in ShellCommands, blocks \in BOOLEAN :
           ShellStep(shell_called(sh, env, op, command, <<"y">>, blocks, now))

\* the process of the call has exited: the call returns
ShellReturns ==
    /\ sh.pc = "wait"
    /\ sh.procs[sh.cur.proc].state = "exited"
    /\ ShellStep(shell_waited(sh, env, now))

\* the process of the call has run longer than the timeout: it is killed
\* and the call returns
ShellTimesOut ==
    /\ sh.pc = "wait"
    /\ sh.procs[sh.cur.proc].state = "running"
    /\ timed_out(sh.cur.start, sh.cur.timeout, now)
    /\ ShellStep(shell_killed(sh, env, now))

\* a process that does not block exits with code 0 or 1
ShellProcExits ==
    \E i \in 1..Len(sh.procs), code \in {0, 1} :
        /\ sh.procs[i].state = "running"
        /\ ~sh.procs[i].blocks
        /\ ShellStep([sh EXCEPT !.procs[i].state = "exited",
                                !.procs[i].code = code])

\* a second passes
ShellTick ==
    /\ now < MaxShellTime
    /\ now' = now + 1
    /\ UNCHANGED <<store, cred, handed, cooled, inv, sh, runs, sandboxVars,
                   storeVars, dispatchVars, loopVars>>

\* a call run_shell_session_start(command)
ShellSessionStart ==
    /\ sh.pc = "idle"
    /\ HasRoom
    /\ \E command \in ShellCommands, blocks \in BOOLEAN :
           ShellStep(run_shell_session_start(sh, env, command, blocks, now))

\* the ids a caller may pass: the ids issued, and one that never was
SessionIds == { sh.issued[i] : i \in 1..Len(sh.issued) } \cup { <<0, 0>> }

\* the text the callers feed
FedText == <<"y">>

\* a call run_shell_session_input(session_id, input_text)
ShellSessionInput ==
    /\ sh.pc = "idle"
    /\ Len(sh.log) < MaxLog
    /\ \E session_id \in SessionIds :
           ShellStep(run_shell_session_input(sh, session_id, FedText, now))

\* a call run_shell_session_end(session_id)
ShellSessionEnd ==
    /\ sh.pc = "idle"
    /\ Len(sh.log) < MaxLog
    /\ \E session_id \in SessionIds :
           ShellStep(run_shell_session_end(sh, session_id, now))

NextShell ==
    \/ ShellExecute
    \/ ShellReturns
    \/ ShellTimesOut
    \/ ShellProcExits
    \/ ShellTick
    \/ ShellSessionStart
    \/ ShellSessionInput
    \/ ShellSessionEnd

SpecShell == InitShell /\ [][NextShell]_vars

\* The one-shot commands alone. The code's own steps are taken when they
\* can be: the clock goes on and a waiting call polls its process.
NextOneShot ==
    \/ ShellExecute
    \/ ShellReturns
    \/ ShellTimesOut
    \/ ShellProcExits
    \/ ShellTick

SpecOneShot ==
    /\ InitShell
    /\ [][NextOneShot]_vars
    /\ WF_vars(ShellTick)
    /\ WF_vars(ShellReturns)
    /\ WF_vars(ShellTimesOut)

\* The sessions alone. The clock goes on; nothing makes a caller end a
\* session or a process exit.
NextSessions ==
    \/ ShellSessionStart
    \/ ShellSessionInput
    \/ ShellSessionEnd
    \/ ShellProcExits
    \/ ShellTick

\* the sessions with the policy switches as they are by default
InitSessions ==
    /\ InitShell
    /\ env.PAI_ALLOW_SHELL_EXEC = DefaultEnv.PAI_ALLOW_SHELL_EXEC
    /\ env.PAI_ALLOW_NET = DefaultEnv.PAI_ALLOW_NET

SpecSessions ==
    /\ InitSessions
    /\ [][NextSessions]_vars
    /\ WF_vars(ShellTick)

---------------------------------------------------------------------------
(* Two engine processes on one credentials file. An operation of config.py *)
(* reads the file with _load_store, works on the store it has read and     *)
(* writes it back with _save_store; nothing locks the file, so the steps   *)
(* of two processes interleave between the read and the write.             *)

\* the keys in the shared file, the operations one process calls, the
\* seconds the processes are followed for, and the seconds a process
\* blacklists a key for
MaxRaceKeys == 2
MaxRaceCalls == 2
MaxRaceTime == 1
RaceCooldown == 2

\* "store = _load_store()" in process p, which starts the operation op on
\* the file
run_loaded(r, p, op, key, dur, file) ==
    [r EXCEPT !.proc[p] = [pc |-> "loaded", op |-> op, key |-> key,
                           dur |-> dur, store |-> file,
                           calls |-> @.calls + 1]]

\* what the operation of a process makes of the store it has loaded, at
\* current_time: the store it saves and what it returns
run_computed(q, current_time) ==
    IF q.op = "get_next_available_key"
    THEN get_next_available_key(q.store, current_time)
    ELSE [store |-> blacklist_key(q.store, q.key, q.dur, current_time),
          ret |-> None]

\* "_save_store(store)" in process p: the operation has returned, and the
\* file was or was not the one p had loaded
run_saved(r, p, file) ==
    [r EXCEPT !.proc[p] = [NoRuns.proc[p] EXCEPT !.calls = r.proc[p].calls],
              !.overwritten = @ \/ r.proc[p].store # file]

\* the file holds the keys 1 .. n, the cursor is within them, and no
\* process is in an operation
InitRace ==
    /\ chkPath = <<>>
    /\ chkVerdict = FALSE
    /\ chkDone = FALSE
    /\ fs = InitFs
    /\ call = NoCall
    /\ res = NoRes
    /\ env = DefaultEnv
    /\ plan = <<>>
    /\ out = NoOutcome
    /\ repeat = FALSE
    /\ pc = "prompt"
    /\ action_idx = 0
    /\ noopRun = 0
    /\ finishSeen = FALSE
    /\ ranAfterFinish = FALSE
    /\ plan_calls = 0
    /\ store \in { StoreWithKeys(n, r) : n \in 1..MaxRaceKeys,
                                         r \in 0..(MaxRaceKeys - 1) }
    /\ store.rr_index < Len(store.order)
    /\ now = 0
    /\ cred = NoCred
    /\ handed = <<>>
    /\ cooled = [k \in KeyIds |-> 0]
    /\ inv = NoInvocation
    /\ sh = NoShell
    /\ runs = NoRuns

\* a process calls get_next_available_key() or blacklist_key(k, d) and
\* reads the file
RaceLoad ==
    /\ \E p \in Runs :
          /\ runs.proc[p].pc = "idle"
          /\ runs.proc[p].calls < MaxRaceCalls
          /\ \/ runs' = run_loaded(runs, p, "get_next_available_key", 0, 0, store)
             \/ \E k \in DOMAIN store.keys :
                   runs' = run_loaded(runs, p, "blacklist_key", k,
                                      RaceCooldown, store)
    /\ UNCHANGED <<store, now, cred, handed, cooled, inv, sh, sandboxVars,
                   storeVars, dispatchVars, loopVars>>

\* the operation of process p has made r of its store: it writes the file
\* and returns
RaceReturned(p, r) ==
    /\ store' = r.store
    /\ runs' = run_saved(runs, p, store)
    /\ cred' = [op |-> runs.proc[p].op, key |-> runs.proc[p].key,
                dur |-> runs.proc[p].dur, at |-> now,
                rr |-> runs.proc[p].store.rr_index, ret |-> r.ret]
    /\ handed' = IF runs.proc[p].op = "blacklist_key" THEN <<>>
                 ELSE IF r.ret = None THEN handed
                 ELSE LastHanded(Append(handed, r.ret[1]))
    /\ cooled' = IF runs.proc[p].op = "blacklist_key"
                 THEN [cooled EXCEPT ![runs.proc[p].key] = now + runs.proc[p].dur]
                 ELSE cooled
    /\ UNCHANGED <<now, inv, sh, sandboxVars, storeVars, dispatchVars, loopVars>>

\* a process that has read the file writes it and returns
RaceSave ==
    \E p \in Runs :
        /\ runs.proc[p].pc = "loaded"
        /\ RaceReturned(p, run_computed(runs.proc[p], now))

\* a second passes
RaceTick ==
    /\ now < MaxRaceTime
    /\ Tick

NextRace ==
    \/ RaceLoad
    \/ RaceSave
    \/ RaceTick

SpecRace == InitRace /\ [][NextRace]_vars

---------------------------------------------------------------------------
(* The paths the sandbox is checked on: every sequence of one to MaxSegs   *)
(* segment names, relative or absolute.                                    *)

MaxSegs == 3

SegNames ==
    SENSITIVE_PATTERNS \cup
    { DotDot, Dot, <<"w", "x">>, <<"l", "n">>,
      <<"a", "\\", ".", "g", "i", "t">> }

SegSeqs == UNION { [1..n -> SegNames] : n \in 1..MaxSegs }

SandboxPaths ==
    { Join(segs, "/") : segs \in SegSeqs } \cup
    { <<"/">> \o Join(segs, "/") : segs \in SegSeqs } \cup
    { <<>>, <<"/">> }

\* the path's segments as the caller wrote them
RawSegs(path) == Split(path, "/")

\* where the path resolves, as segments below /
ResolvedSegs(path) ==
    ResolveSegs(<<>>, Split(join(PROJECT_ROOT, normpath(path)), "/"))

\* the resolved location is the root or lies below it
UnderRoot(segs) ==
    Len(segs) >= Len(RootSegs) /\ SubSeq(segs, 1, Len(RootSegs)) = RootSegs

InitSandbox ==
    /\ chkPath \in SandboxPaths
    /\ chkVerdict = FALSE
    /\ chkDone = FALSE
    /\ fs = InitFs
    /\ call = NoCall
    /\ res = NoRes
    /\ env = DefaultEnv
    /\ plan = <<>>
    /\ out = NoOutcome
    /\ repeat = FALSE
    /\ pc = "prompt"
    /\ action_idx = 0
    /\ noopRun = 0
    /\ finishSeen = FALSE
    /\ ranAfterFinish = FALSE
    /\ plan_calls = 0
    /\ NoCredentials

\* one call of _is_path_safe(chkPath)
CheckPath ==
    /\ ~chkDone
    /\ chkVerdict' = _is_path_safe(chkPath)
    /\ chkDone' = TRUE
    /\ UNCHANGED <<chkPath, storeVars, dispatchVars, loopVars, credVars>>

NextSandbox == CheckPath

SpecSandbox == InitSandbox /\ [][NextSandbox]_vars

---------------------------------------------------------------------------
(* The workspace operations, called directly with any of these paths.      *)

InitStore ==
    /\ chkPath = <<>>
    /\ chkVerdict = FALSE
    /\ chkDone = FALSE
    /\ fs = InitFs
    /\ call = NoCall
    /\ res = NoRes
    /\ env = DefaultEnv
    /\ plan = <<>>
    /\ out = NoOutcome
    /\ repeat = FALSE
    /\ pc = "prompt"
    /\ action_idx = 0
    /\ noopRun = 0
    /\ finishSeen = FALSE
    /\ ranAfterFinish = FALSE
    /\ plan_calls = 0
    /\ NoCredentials

\* the operation op, called with paths and the contents args, returned r
ReturnedWith(op, paths, args, r) ==
    /\ fs' = r.fs
    /\ res' = r.res
    /\ call' = [op |-> op, paths |-> paths, args |-> args,
                nth |-> 1 - call.nth]
    /\ UNCHANGED <<credVars, sandboxVars, dispatchVars, loopVars>>

\* the operation op, called with paths alone, returned r
Returned(op, paths, r) == ReturnedWith(op, paths, <<>>, r)

StoreCreateFile ==
    \E p \in StorePaths : Returned("create_file", <<p>>, create_file(fs, p))

\* create_file as the pai_code package has it
StoreFsCreateFile ==
    \E p \in StorePaths :
        Returned("fs_create_file", <<p>>, fs_create_file(fs, p))

\* directories are made at d only, which keeps the tree two levels deep
StoreCreateDirectory ==
    \E p \in {P_d} \cup UnsafePaths :
        Returned("create_directory", <<p>>, create_directory(fs, p))

StoreDelete ==
    \E p \in StorePaths : Returned("delete", <<p>>, delete_item(fs, p))

\* files are moved, to any path; a directory is not
StoreMove ==
    \E s \in StorePaths, d \in StorePaths :
        /\ is_safe(s) => KindOf(fs, Loc(s)) # "dir"
        /\ Returned("move", <<s, d>>, move_item(fs, s, d))

StoreRead ==
    \E p \in StorePaths : Returned("read", <<p>>, read_file(fs, p))

StoreWrite ==
    \E p \in StorePaths, c \in StoreContents :
        ReturnedWith("write", <<p>>, <<c>>, write_to_file(fs, p, c))

StoreList ==
    \E p \in StorePaths \cup {Dot} : Returned("list", <<p>>, list_path(fs, p))

StoreTree ==
    \E p \in StorePaths \cup {Dot} : Returned("tree", <<p>>, tree_directory(fs, p))

StoreApply ==
    \E p \in StorePaths, x \in StoreContents, y \in StoreContents :
        ReturnedWith("apply", <<p>>, <<x, y>>,
                     apply_modification_with_patch(fs, p, x, y))

NextStore ==
    \/ StoreCreateFile
    \/ StoreFsCreateFile
    \/ StoreCreateDirectory
    \/ StoreDelete
    \/ StoreMove
    \/ StoreRead
    \/ StoreWrite
    \/ StoreList
    \/ StoreTree
    \/ StoreApply

SpecStore == InitStore /\ [][NextStore]_vars

---------------------------------------------------------------------------
(* The operations that carry content (write_to_file,                       *)
(* apply_modification_with_patch, read_file), called with contents that    *)
(* differ in their line ends, and delete_item to take a file away again.   *)

\* the contents: nothing, a line without an end, a line ended by a line
\* feed or by a carriage return, and two lines
FileContents ==
    { <<>>, <<"x">>, <<"x", "\n">>, <<"x", "\r">>, <<"x", "\n", "y">> }

\* the paths: a file in the root, a file in a directory, a denylisted file
ContentPaths == {P_a, P_da, P_env}

ContentWrite ==
    \E p \in ContentPaths, c \in FileContents :
        ReturnedWith("write", <<p>>, <<c>>, write_to_file(fs, p, c))

ContentApply ==
    \E p \in ContentPaths, x \in FileContents, y \in FileContents :
        ReturnedWith("apply", <<p>>, <<x, y>>,
                     apply_modification_with_patch(fs, p, x, y))

ContentRead ==
    \E p \in ContentPaths : Returned("read", <<p>>, read_file(fs, p))

ContentDelete ==
    \E p \in ContentPaths : Returned("delete", <<p>>, delete_item(fs, p))

NextContent ==
    \/ ContentWrite
    \/ ContentApply
    \/ ContentRead
    \/ ContentDelete

SpecContent == InitStore /\ [][NextContent]_vars

\* the file system is a tree: everything that exists lies in a directory
FsIsTree ==
    \A l \in DOMAIN fs : l # <<>> => KindOf(fs, Parent(l)) = "dir"

---------------------------------------------------------------------------
(* The dispatcher, called with one block after another.                    *)

MaxBlockLines == 2

\* A block is one line, or a line of FirstLines with up to MaxBlockLines - 1
\* lines of LaterLines after it.
FirstLines ==
    { L_commentary, L_RUN_ls, L_DELETE_PATH_notes, L_EXECUTE_ls, L_FINISH }
LaterLines == { L_commentary, L_RUN_ls, L_CREATE_FILE_notes }

Blocks ==
    { <<l>> : l \in ProtocolLines } \cup
    UNION { { <<l>> \o t : l \in FirstLines, t \in [1..n -> LaterLines] } :
            n \in 1..(MaxBlockLines - 1) }

\* the environments the dispatcher is run in: the default, and the default
\* with one switch changed
Envs ==
    { DefaultEnv,
      [DefaultEnv EXCEPT !.PAI_ALLOW_SHELL_EXEC = FALSE],
      [DefaultEnv EXCEPT !.PAI_ALLOW_NET = TRUE],
      [DefaultEnv EXCEPT !.PAI_EARLY_FINISH_NOOP = 0],
      [DefaultEnv EXCEPT !.PAI_MAX_CMDS_PER_STEP = 1] }

\* the headers of the block's lines
HeadersOf(b) == { Parsed(b[i]).hdr : i \in 1..Len(b) }

\* What the language model and the shell hand back during one call; what
\* the block's actions do not ask for is left at a fixed value.
OraclesFor(headers, gens) ==
    { o \in [g1 : gens, g2 : gens, sh : ShellOutcomes] :
        /\ headers \cap {H_WRITE_FILE, H_MODIFY_FILE} = {} => o.g1 = <<>>
        /\ H_MODIFY_FILE \notin headers => o.g2 = <<>>
        /\ headers \cap {H_EXECUTE, H_EXECUTE_INPUT} = {} => o.sh = "exit0" }
Oracles(b, gens) == OraclesFor(HeadersOf(b), gens)

OracleTable == [b \in Blocks \cup {<<>>} |-> Oracles(b, GenContents)]

InitDispatch ==
    /\ chkPath = <<>>
    /\ chkVerdict = FALSE
    /\ chkDone = FALSE
    /\ fs = InitFs
    /\ call = NoCall
    /\ res = NoRes
    /\ env \in Envs
    /\ plan = <<>>
    /\ out = NoOutcome
    /\ repeat = FALSE
    /\ pc = "prompt"
    /\ action_idx = 0
    /\ noopRun = 0
    /\ finishSeen = FALSE
    /\ ranAfterFinish = FALSE
    /\ plan_calls = 0
    /\ NoCredentials

\* the last call executed one action with Success
ExecutedOk(o) ==
    Len(o.taken) = 1 /\ Len(o.results) = 1 /\ o.results[1].status = "Success"

\* the call _generate_execution_renderables(b) returned r
CallReturned(b, r) ==
    /\ fs' = r.fs
    /\ plan' = b
    /\ out' = r.out
    /\ repeat' = (ExecutedOk(out) /\ r.out.taken = out.taken)

\* one call _generate_execution_renderables(b), with o for what the
\* language model and the shell hand back
Called(b, o) == CallReturned(b, _generate_execution_renderables(fs, env, b, o))

Dispatch ==
    /\ \E b \in Blocks \cup {<<>>} : \E o \in OracleTable[b] : Called(b, o)
    /\ UNCHANGED <<credVars, sandboxVars, call, res, env, loopVars>>

NextDispatch == Dispatch

SpecDispatch == InitDispatch /\ [][NextDispatch]_vars

---------------------------------------------------------------------------
(* The dispatcher, called with blocks of one or more action lines, among   *)
(* them blocks that repeat a line.                                         *)

PolicyLines ==
    { L_CREATE_FILE_notes, L_DELETE_PATH_notes, L_MODIFY_FILE_notes,
      L_EXECUTE_ls } \cup InlineLines

\* a block is one of these lines, written once or several times
PolicyBlocks ==
    { [i \in 1..n |-> l] : l \in PolicyLines, n \in 1..MaxBlockLines }

PolicyDispatch ==
    /\ \E b \in PolicyBlocks : \E o \in Oracles(b, GenContents) : Called(b, o)
    /\ UNCHANGED <<credVars, sandboxVars, call, res, env, loopVars>>

NextPolicy == PolicyDispatch

SpecPolicy == InitDispatch /\ [][NextPolicy]_vars

---------------------------------------------------------------------------
(* The session: agent.start_interactive_session. For each request of the  *)
(* user it runs step 1 (the response), step 2 (the scheduler), the action  *)
(* steps 3 .. last_action_step_index and the final summary; a chat message *)
(* is answered in one turn. Every text the language model returns in any   *)
(* of these goes through the dispatcher.                                   *)

total_steps == 25
\* the action steps taken as all the steps of the request
action_steps_count_all == Max(1, total_steps)

action_steps_count == Max(1, total_steps - 3)
last_action_step_index == 2 + action_steps_count

\* the history variable noopRun counts up to this
MaxNoopRun == 3

\* what the language model returns as the plan of an action step
LoopBlocks ==
    { <<>>, <<L_commentary>>, <<L_CREATE_FILE_notes>>, <<L_MODIFY_FILE_notes>>,
      <<L_FINISH>>, <<L_FINISH_spaced>>, <<L_READ_FILE_notes, L_FINISH>> }

\* what it returns where it was asked for text without commands
TextBlocks == { <<>>, <<L_commentary>>, <<L_CREATE_FILE_notes>> }

LoopGens == {<<>>, <<"x">>}

\* the block has a FINISH action, as the dispatcher reads its lines
IsFinishAction(l) == l.is_action /\ l.hdr = H_FINISH
HasFinishAction(b) == \E i \in 1..Len(b) : IsFinishAction(Parsed(b[i]))

Init ==
    /\ chkPath = <<>>
    /\ chkVerdict = FALSE
    /\ chkDone = FALSE
    /\ fs = InitFs
    /\ call = NoCall
    /\ res = NoRes
    /\ env = DefaultEnv
    /\ plan = <<>>
    /\ out = NoOutcome
    /\ repeat = FALSE
    /\ pc = "prompt"
    /\ action_idx = 0
    /\ noopRun = 0
    /\ finishSeen = FALSE
    /\ ranAfterFinish = FALSE
    /\ plan_calls = 0
    /\ NoCredentials

\* the dispatcher is called with a text written where no command was
\* asked for
CalledWithText == \E b \in TextBlocks : \E o \in Oracles(b, LoopGens) : Called(b, o)

\* "exit", "quit", or the end of input
UserExit ==
    /\ pc = "prompt"
    /\ pc' = "ended"
    /\ UNCHANGED <<credVars, sandboxVars, storeVars, dispatchVars, action_idx, noopRun,
                   finishSeen, ranAfterFinish, plan_calls>>

\* a message classified as chat: one reply, dispatched
ChatTurn ==
    /\ pc = "prompt"
    /\ CalledWithText
    /\ UNCHANGED <<credVars, sandboxVars, call, res, env, loopVars>>

\* a message classified as a task: step 1, the response
StepResponse ==
    /\ pc = "prompt"
    /\ CalledWithText
    /\ pc' = "scheduler"
    /\ action_idx' = 0
    /\ noopRun' = 0
    /\ finishSeen' = FALSE
    /\ ranAfterFinish' = FALSE
    /\ plan_calls' = 0
    /\ UNCHANGED <<credVars, sandboxVars, call, res, env>>

\* step 2, the scheduler returned a JSON plan: it is shown as a table
StepSchedulerJson ==
    /\ pc = "scheduler"
    /\ pc' = "action"
    /\ action_idx' = 3
    /\ UNCHANGED <<credVars, sandboxVars, storeVars, dispatchVars, noopRun, finishSeen,
                   ranAfterFinish, plan_calls>>

\* step 2, the scheduler returned something else: it is dispatched
StepSchedulerText ==
    /\ pc = "scheduler"
    /\ CalledWithText
    /\ pc' = "action"
    /\ action_idx' = 3
    /\ UNCHANGED <<credVars, sandboxVars, call, res, env, noopRun, finishSeen,
                   ranAfterFinish, plan_calls>>

\* the plan b of an action step is dispatched and tested for an early finish
PlanDispatched(b) ==
    /\ \E o \in Oracles(b, LoopGens) : Called(b, o)
    /\ finishSeen' = (finishSeen \/ HasFinishAction(b))
    /\ IF finished_early(b) \/ action_idx = last_action_step_index
       THEN pc' = "summary" /\ action_idx' = action_idx
       ELSE pc' = "action" /\ action_idx' = action_idx + 1

\* how often an action step calls llm.generate_text_resilient for its plan
\* when the first answer is first: once, and once more ("Hard-reprompt
\* once") when that answer has no valid command
plan_requests(first) == IF _has_valid_command(first) THEN 1 ELSE 2

\* One action step: the plan is generated, generated once more when it has
\* no valid command, dispatched, and tested for an early finish.
StepAction ==
    /\ pc = "action"
    /\ \E first \in LoopBlocks, again \in LoopBlocks :
          /\ _has_valid_command(first) => again = <<>>
          /\ PlanDispatched(IF _has_valid_command(first) THEN first ELSE again)
          /\ plan_calls' = plan_requests(first)
    /\ noopRun' = IF out'.noop_streak > 0 THEN Min(noopRun + 1, MaxNoopRun) ELSE 0
    /\ ranAfterFinish' = (ranAfterFinish \/ finishSeen)
    /\ UNCHANGED <<credVars, sandboxVars, call, res, env>>

\* the final summary, dispatched; the session then waits for the user
StepSummary ==
    /\ pc = "summary"
    /\ CalledWithText
    /\ pc' = "prompt"
    /\ action_idx' = 0
    /\ UNCHANGED <<credVars, sandboxVars, call, res, env, noopRun, finishSeen,
                   ranAfterFinish, plan_calls>>

Next ==
    \/ UserExit
    \/ ChatTurn
    \/ StepResponse
    \/ StepSchedulerJson
    \/ StepSchedulerText
    \/ StepAction
    \/ StepSummary

Spec == Init /\ [][Next]_vars

\* One request after the other, each carried on: the code of a request is
\* one sequence of statements, and every call of the planner returns
\* (generate_text_resilient gives up after max_attempts attempts), so a
\* step that can be taken is taken. Nothing makes the user write a request.
SpecRequest ==
    /\ Init
    /\ [][Next]_vars
    /\ WF_vars(StepSchedulerJson \/ StepSchedulerText)
    /\ WF_vars(StepAction)
    /\ WF_vars(StepSummary)

\* where the session stands is one of these, and the action loop's index
\* stays in its range
TypeLoop ==
    /\ pc \in {"prompt", "scheduler", "action", "summary", "ended"}
    /\ pc = "action" => action_idx \in 3..last_action_step_index
    /\ noopRun \in 0..MaxNoopRun

---------------------------------------------------------------------------
(* Claims about the sandbox.                                               *)

\* C1: every path that contains a ".." segment or whose resolved location
\* lies outside the project root (a sibling directory whose name has the
\* root's path as a string prefix included) is rejected by is_safe.
C1_TraversalOrOutsideRejected ==
    (chkDone /\ (\/ \E i \in 1..Len(RawSegs(chkPath)) : RawSegs(chkPath)[i] = DotDot
                 \/ ~UnderRoot(ResolvedSegs(chkPath))))
        => chkVerdict = FALSE

\* the denylist as the claim C2 spells it
C2_Denylist ==
    { <<".","e","n","v">>, <<".","g","i","t">>, <<"v","e","n","v">>,
      <<".","v","e","n","v">>,
      <<"_","_","p","y","c","a","c","h","e","_","_">>,
      <<".","p","a","i","_","h","i","s","t","o","r","y">>,
      <<".","i","d","e","a">>, <<".","v","s","c","o","d","e">> }

C2_NormSegs == Split(normpath(chkPath), "/")

\* C2: a path whose normalized form holds a denylisted segment, at any
\* depth, is rejected by is_safe.
C2_DenylistedRejected ==
    (chkDone /\ chkPath # <<>>
        /\ \E i \in 1..Len(C2_NormSegs) : C2_NormSegs[i] \in C2_Denylist)
        => chkVerdict = FALSE

\* C2 witness: a path inside the root with a denylisted segment below the
\* first level has been checked and rejected.
C2_Witness ==
    /\ chkDone
    /\ chkVerdict = FALSE
    /\ UnderRoot(ResolvedSegs(chkPath))
    /\ Len(C2_NormSegs) >= 2
    /\ C2_NormSegs[1] \notin C2_Denylist
    /\ C2_NormSegs[Len(C2_NormSegs)] \in C2_Denylist

---------------------------------------------------------------------------
(* Claims about the workspace store.                                       *)

\* some path argument of the operation is one the sandbox rejects
C3_SomeArgRejected(c) == \E i \in 1..Len(c.paths) : ~is_safe(c.paths[i])

\* C3: every operation of the store (create_file, create_directory, delete,
\* move, read, write, list, tree, apply) is gated by the sandbox: when
\* is_safe rejects a path argument (for move, either one) the operation
\* leaves the workspace as it was and returns an Error status; read returns
\* null and no content.
C3_OperationsGated ==
    [][ C3_SomeArgRejected(call') =>
            /\ fs' = fs
            /\ res'.data = <<>>
            /\ res'.listing = {}
            /\ res'.status = IF call'.op = "read" THEN "None" ELSE "Error"
      ]_vars

\* C3 witness: a move of an existing file to a destination the sandbox
\* rejects has been refused with an Error.
C3_Witness ==
    /\ call.op = "move"
    /\ is_safe(call.paths[1])
    /\ KindOf(fs, Loc(call.paths[1])) = "file"
    /\ ~is_safe(call.paths[2])
    /\ res.status = "Error"

---------------------------------------------------------------------------
(* Claims about the dispatcher.                                            *)

\* the closed set of headers as the claim C4 spells it
C4_ClosedSet ==
    { <<"C","R","E","A","T","E","_","D","I","R","E","C","T","O","R","Y">>,
      <<"C","R","E","A","T","E","_","F","I","L","E">>,
      <<"W","R","I","T","E","_","F","I","L","E">>,
      <<"R","E","A","D","_","F","I","L","E">>,
      <<"M","O","D","I","F","Y","_","F","I","L","E">>,
      <<"D","E","L","E","T","E","_","P","A","T","H">>,
      <<"M","O","V","E","_","P","A","T","H">>,
      <<"L","I","S","T","_","P","A","T","H","S">>,
      <<"S","H","O","W","_","T","R","E","E">>,
      <<"E","X","E","C","U","T","E">>,
      <<"E","X","E","C","U","T","E","_","I","N","P","U","T">>,
      <<"F","I","N","I","S","H">> }

\* the line has '::' and its header, trimmed and in upper case as the
\* dispatcher reads it, is in the closed set
C4_Recognized(raw) == Parsed(raw).is_action /\ Parsed(raw).hdr \in C4_ClosedSet

\* the stripped texts of the block's recognized lines
C4_RecognizedTexts(b) ==
    { Parsed(b[j]).line : j \in { i \in 1..Len(b) : C4_Recognized(b[i]) } }

\* C4: an action line whose header is not in the closed set, and a
\* commentary line, is never executed: every line the action loop takes up,
\* and every workspace or shell operation the call runs, is for a
\* recognized line of the block; a shell process is spawned only by such
\* an operation; and a call whose block has no recognized line takes up
\* nothing, runs nothing, asks the language model for nothing and leaves
\* the workspace as it was.
C4_UnrecognizedNeverExecuted ==
    [][ /\ \A i \in 1..Len(out'.taken) :
              out'.taken[i] \in C4_RecognizedTexts(plan')
        /\ \A i \in 1..Len(out'.ran) :
              out'.ran[i].line \in C4_RecognizedTexts(plan')
        /\ Len(out'.spawned) <= Len(out'.ran)
        /\ out'.ran = <<>> => fs' = fs
        /\ C4_RecognizedTexts(plan') = {} =>
              /\ out'.taken = <<>>
              /\ out'.ran = <<>>
              /\ out'.spawned = <<>>
              /\ out'.llm = 0
              /\ fs' = fs
      ]_vars

\* C4 witness: a block with RUN::ls before CREATE_FILE::notes.txt has been
\* dispatched; the call took up and ran the CREATE_FILE line alone and
\* spawned no process.
C4_Witness ==
    /\ plan = <<L_RUN_ls, L_CREATE_FILE_notes>>
    /\ out.taken = <<L_CREATE_FILE_notes>>
    /\ Len(out.ran) = 1
    /\ out.ran[1].line = L_CREATE_FILE_notes
    /\ out.spawned = <<>>

\* the outcome holds a Warning: among the results of the action loop, or
\* one of the two warnings raised before it
C5_Warned(o) ==
    \/ \E k \in 1..Len(o.results) : o.results[k].status = "Warning"
    \/ o.single
    \/ o.too_many

\* C5, as the claim states it: a step whose block contains RUN::ls has a
\* Warning in its outcome, and nothing was executed for that line.
C5_UnrecognizedHeaderWarned ==
    (\E i \in 1..Len(plan) : plan[i] = L_RUN_ls) =>
        /\ C5_Warned(out)
        /\ \A i \in 1..Len(out.ran) : out.ran[i].line # L_RUN_ls

\* the block's lines with '::' and an allowed header, in order
RecognizedLines(b) ==
    SelectSeq([i \in 1..Len(b) |-> Parsed(b[i])], IsValidCommand)

\* dispatching the one line alone could have left the workspace f2 and the
\* results rs
C6_AsAlone(f, e, line, f2, rs) ==
    \E o \in Oracles(<<line>>, GenContents) :
        /\ _generate_execution_renderables(f, e, <<line>>, o).fs = f2
        /\ _generate_execution_renderables(f, e, <<line>>, o).out.results = rs

\* C6: the dispatcher executes at most one action per step. Of a block
\* with k >= 1 recognized action lines the action loop takes up the first
\* and no other, and every operation run is for that line; when k >= 2 the
\* workspace and the results are those of dispatching the first line
\* alone, and the outcome carries the warning that only the first
\* action is executed.
C6_AtMostOneAction ==
    [][ /\ Len(out'.taken) <= 1
        /\ RecognizedLines(plan') # <<>> =>
              out'.taken = <<RecognizedLines(plan')[1].line>>
        /\ \A i \in 1..Len(out'.ran) : out'.ran[i].line = out'.taken[1]
        /\ Len(RecognizedLines(plan')) >= 2 =>
              /\ out'.single \/ out'.too_many
              /\ C6_AsAlone(fs, env, RecognizedLines(plan')[1].line,
                            fs', out'.results)
      ]_vars

\* C6 witness: DELETE_PATH::notes.txt followed by CREATE_FILE::notes.txt
\* has been dispatched where notes.txt was absent: the delete alone was
\* taken up, the warning was raised, and notes.txt has not been created.
C6_Witness ==
    /\ plan = <<L_DELETE_PATH_notes, L_CREATE_FILE_notes>>
    /\ out.taken = <<L_DELETE_PATH_notes>>
    /\ out.single
    /\ Len(out.results) = 1
    /\ out.results[1].msg = "Item not found, nothing deleted"
    /\ KindOf(fs, Loc(P_notes)) = "absent"

\* the first recognized line of block b is a WRITE_FILE or CREATE_FILE whose
\* target is a file in f, at a path the sandbox accepts
C9_OnExistingFile(f, b) ==
    /\ RecognizedLines(b) # <<>>
    /\ RecognizedLines(b)[1].command_candidate \in {H_WRITE_FILE, H_CREATE_FILE}
    /\ is_safe(RecognizedLines(b)[1].first)
    /\ KindOf(f, Loc(RecognizedLines(b)[1].first)) = "file"

\* the Error that sends the planner to MODIFY_FILE
C9_Rejection(header) ==
    [ status |-> "Error",
      msg |-> IF header = H_WRITE_FILE
              THEN "WRITE_FILE rejected for existing file. Use MODIFY_FILE"
              ELSE "CREATE_FILE rejected for existing file. File already exists. Use MODIFY_FILE" ]

\* C9: WRITE_FILE or CREATE_FILE dispatched against a file that exists (at
\* a path the sandbox accepts) is rejected with an Error that directs to
\* MODIFY_FILE: no workspace operation is run for it, the language model is
\* not asked for content, and the workspace, the file's content included,
\* is left as it was.
C9_CreationNeverOverwrites ==
    [][ C9_OnExistingFile(fs, plan') =>
            /\ out'.results =
                 <<C9_Rejection(RecognizedLines(plan')[1].command_candidate)>>
            /\ out'.ran = <<>>
            /\ out'.llm = 0
            /\ fs' = fs
      ]_vars

\* C9 witness: WRITE_FILE::notes.txt has been dispatched and rejected
\* where notes.txt holds the text "x", which it still holds.
C9_Witness ==
    /\ plan = <<L_WRITE_FILE_notes>>
    /\ out.taken = <<L_WRITE_FILE_notes>>
    /\ out.results = <<C9_Rejection(H_WRITE_FILE)>>
    /\ KindOf(fs, Loc(P_notes)) = "file"
    /\ fs[Loc(P_notes)].data = <<"x">>

\* the messages of the model that contain "already exists"
C10_AlreadyExists ==
    { "File already exists, left untouched",
      "CREATE_FILE rejected for existing file. File already exists. Use MODIFY_FILE",
      "Failed to move: Destination path already exists" }

\* the call before the last executed CREATE_FILE::notes.txt with Success,
\* and the last call took up CREATE_FILE::notes.txt again
C10_SecondCreate == repeat /\ out.taken = <<L_CREATE_FILE_notes>>

\* C10, as the claim states it: the second CREATE_FILE::notes.txt yields a
\* Warning that contains "already exists".
C10_SecondIsWarning ==
    C10_SecondCreate =>
        /\ Len(out.results) = 1
        /\ out.results[1].status = "Warning"
        /\ out.results[1].msg \in C10_AlreadyExists

\* C10, amended: CREATE_FILE::notes.txt dispatched where notes.txt is absent
\* yields Success and creates the file; dispatched again in the next step
\* it yields an Error that contains "already exists" and directs to
\* MODIFY_FILE, and the workspace is left as it was.
C10_SecondIsError ==
    [][ /\ (out'.taken = <<L_CREATE_FILE_notes>>
              /\ KindOf(fs, Loc(P_notes)) = "absent") =>
              /\ out'.results = <<[status |-> "Success", msg |-> "File created"]>>
              /\ KindOf(fs', Loc(P_notes)) = "file"
        /\ (repeat' /\ out'.taken = <<L_CREATE_FILE_notes>>) =>
              /\ out'.results = <<C9_Rejection(H_CREATE_FILE)>>
              /\ out'.results[1].msg \in C10_AlreadyExists
              /\ fs' = fs
      ]_vars

\* C10 witness: CREATE_FILE::notes.txt has been dispatched twice in a row,
\* the first time with Success, the second time with an Error.
C10_Witness ==
    /\ C10_SecondCreate
    /\ plan = <<L_CREATE_FILE_notes>>
    /\ Len(out.results) = 1
    /\ out.results[1].status = "Error"
    /\ KindOf(fs, Loc(P_notes)) = "file"

---------------------------------------------------------------------------
(* Claims about the session's action loop.                                 *)

\* C7, as the claim states it: with the threshold at 3, once three action
\* steps in a row have ended in a no-op, no further action line is taken up
\* in the request: the run has ended on a synthesized FINISH.
C7_NoFourthAction ==
    [][ (early_noop_threshold(env) = 3 /\ noopRun >= 3 /\ pc = "action") =>
            out'.taken = <<>>
      ]_vars

\* C8, as the claim states it: once the block of an action step holds a
\* FINISH action, no further action step is executed for the request.
C8_FinishEndsRun == ~ranAfterFinish

---------------------------------------------------------------------------
(* Claims about the operations of the workspace store.                     *)

\* the operation just called is a create_file (of either package) on the
\* sandbox-accepted path p
C11_Created(c, p) ==
    /\ c.op \in {"create_file", "fs_create_file"}
    /\ c.paths = <<p>>
    /\ is_safe(p)

\* C11: create_file on a sandbox-accepted path that already exists returns a
\* Warning "already exists" and leaves the workspace, the existing file's
\* content with it, as it was; on a sandbox-accepted path that does not
\* exist, and whose directories can be made, it creates an empty file and
\* returns Success.
C11_CreateFileNeverOverwrites ==
    [][ \A p \in StorePaths :
          C11_Created(call', p) =>
            IF KindOf(fs, Loc(p)) # "absent"
            THEN /\ res'.status = "Warning"
                 /\ res'.msg \in C10_AlreadyExists
                 /\ fs' = fs
            ELSE makedirs(fs, Parent(Loc(p))).ok =>
                 /\ res'.status = "Success"
                 /\ fs'[Loc(p)] = FileE(<<>>)
      ]_vars

---------------------------------------------------------------------------
(* Claims about MODIFY_FILE.                                               *)

\* the MODIFY_FILE lines of the model
C12_ModifyLines == {L_MODIFY_FILE_notes, L_MODIFY_FILE_env}

\* what the dispatcher reports for a target that read_file returned None for
C12_CannotModify ==
    [status |-> "Error",
     msg |-> "Cannot modify: it does not exist or cannot be read"]

\* C12: when the action loop takes up a MODIFY_FILE line whose target
\* read_file cannot read (the file does not exist, or the sandbox rejects the
\* path), the one result of the call is an Error, no generation is asked of
\* the language model, no store operation runs and the workspace is left as
\* it was.
C12_ModifyMissingIsError ==
    [][ \A l \in C12_ModifyLines :
          ( /\ out'.taken = <<l>>
            /\ read_file(fs, Parsed(l).first).res.status = "None" ) =>
              /\ out'.results = <<C12_CannotModify>>
              /\ out'.llm = 0
              /\ out'.ran = <<>>
              /\ fs' = fs
      ]_vars

\* C12 witness: MODIFY_FILE::notes.txt has been dispatched where notes.txt
\* does not exist, and was answered with the Error.
C12_Witness ==
    /\ plan = <<L_MODIFY_FILE_notes>>
    /\ out.taken = <<L_MODIFY_FILE_notes>>
    /\ KindOf(fs, Loc(P_notes)) = "absent"
    /\ out.results = <<C12_CannotModify>>
    /\ out.llm = 0

\* the last operation was a write_to_file that did not fail
C13_Written ==
    call.op = "write" /\ res.status \in {"Success", "Warning"}

\* the operation just called is the last one again: the same operation
\* with the same arguments
C13_CalledAgain ==
    call'.op = call.op /\ call'.paths = call.paths /\ call'.args = call.args

\* C13, as the claim states it: when write_to_file(path, content) has
\* returned Success or the no-op Warning and is called again at once with
\* the same path and content, the second call returns the Warning "No
\* changes detected" and leaves the file system as it was.
C13_WriteIdempotent ==
    [][ (C13_Written /\ C13_CalledAgain) =>
            /\ res'.status = "Warning"
            /\ res'.msg = "No changes detected"
            /\ fs' = fs
      ]_vars

\* the lines apply_modification_with_patch takes the diff of
C14_Lines(c) == splitlines(NormEOL(c))

\* the operation just called is apply_modification_with_patch on a path the
\* sandbox accepts
C14_Applied ==
    call'.op = "apply" /\ is_safe(call'.paths[1])

\* C14: whenever apply_modification_with_patch is called on a sandbox-
\* accepted path with an original and a proposed content whose line diff is
\* empty (the two have the same lines once line ends are normalized; in
\* particular when the two are equal), it returns applied = false with the
\* Warning "No changes detected", and nothing is written: the file system
\* is left as it was.
C14_EmptyDiffNeverWrites ==
    [][ ( /\ C14_Applied
          /\ C14_Lines(call'.args[1]) = C14_Lines(call'.args[2]) ) =>
            /\ res'.status = "Warning"
            /\ res'.msg = "No changes detected"
            /\ res'.count = 0
            /\ fs' = fs
      ]_vars

\* C14 witness: apply_modification_with_patch has been called on a.txt,
\* which holds other content, with an original and a proposed content that
\* differ in their line ends only, and returned the Warning.
C14_Witness ==
    /\ call.op = "apply"
    /\ call.paths = <<P_a>>
    /\ call.args = << <<"x", "\n">>, <<"x", "\r">> >>
    /\ KindOf(fs, Loc(P_a)) = "file"
    /\ fs[Loc(P_a)].data = <<"x">>
    /\ res.status = "Warning"

\* C15, as the claim states it: apply_modification_with_patch called on a
\* sandbox-accepted path with an original x and a proposed y, x # y,
\* returns applied = true with a changed-line count of at least 1, and the
\* file then holds y, also when x and y differ in their line ends only and
\* when the file already holds y.
C15_DifferentContentApplied ==
    [][ (C14_Applied /\ call'.args[1] # call'.args[2]) =>
            /\ res'.status = "Success"
            /\ res'.count >= 1
            /\ KindOf(fs', Loc(call'.paths[1])) = "file"
            /\ fs'[Loc(call'.paths[1])].data = call'.args[2]
      ]_vars

---------------------------------------------------------------------------
(* Claims about MOVE_PATH.                                                 *)

\* the messages of the model that contain "Failed to move"
C16_FailedToMove ==
    { "Failed to move", "Failed to move: Destination path already exists" }

\* C16: when the action loop takes up MOVE_PATH::a.txt::b.txt and a.txt does
\* not exist, move_item is called and the one result is an Error whose
\* message contains "Failed to move"; the workspace is left as it was, and
\* b.txt is not created.
C16_MoveAbsentSourceFails ==
    [][ ( /\ out'.taken = <<L_MOVE_PATH_a_b>>
          /\ KindOf(fs, Loc(P_a)) = "absent" ) =>
            /\ Len(out'.results) = 1
            /\ out'.results[1].status = "Error"
            /\ out'.results[1].msg \in C16_FailedToMove
            /\ fs' = fs
            /\ KindOf(fs', Loc(P_b)) = KindOf(fs, Loc(P_b))
      ]_vars

\* C16 witness: MOVE_PATH::a.txt::b.txt has been dispatched where neither
\* file exists, and was answered with the Error "Failed to move".
C16_Witness ==
    /\ plan = <<L_MOVE_PATH_a_b>>
    /\ out.taken = <<L_MOVE_PATH_a_b>>
    /\ out.results = <<[status |-> "Error", msg |-> "Failed to move"]>>
    /\ KindOf(fs, Loc(P_a)) = "absent"
    /\ KindOf(fs, Loc(P_b)) = "absent"

---------------------------------------------------------------------------
(* Claims about the credential store.                                      *)

\* the last operation was a selection, and it returned a key
C17_Selected == cred.op = "get_next_available_key" /\ cred.ret # None

\* the last operation was a selection, and it returned None
C17_NoneSelected == cred.op = "get_next_available_key" /\ cred.ret = None

\* the ids in the rotation order
C17_Rotation == { store.order[i] : i \in 1..Len(store.order) }

\* C17: get_next_available_key never returns a key that has a blacklist
\* entry which had not expired at the call (such an entry stays in the file
\* the call saves); the key it returns is a key of the rotation order with
\* its value; and it returns None only when the order is empty or every
\* key of the order has an entry that had not expired at the call.
C17_NeverBlacklistedKey ==
    /\ C17_Selected =>
          /\ cred.ret[1] \in C17_Rotation
          /\ cred.ret[2] = KeyVal(cred.ret[1])
          /\ cred.ret[1] \notin DOMAIN store.blacklist
    /\ C17_NoneSelected =>
          \A k \in C17_Rotation :
              k \in DOMAIN store.blacklist /\ store.blacklist[k] > cred.at

\* C17 witness: a selection found a blacklisted key at the cursor, passed
\* over it and returned another key.
C17_Witness ==
    /\ C17_Selected
    /\ store.order[(cred.rr % Len(store.order)) + 1] \in DOMAIN store.blacklist
    /\ store.blacklist[store.order[(cred.rr % Len(store.order)) + 1]] > cred.at

\* the keys of the rotation order that have no entry in the blacklist
C18_Available == { k \in C17_Rotation : k \notin DOMAIN store.blacklist }

\* the last n selections, or all of them when there were fewer
C18_LastSelections(n) ==
    IF Len(handed) > n THEN SubSeq(handed, Len(handed) - n + 1, Len(handed))
    ELSE handed

\* no id appears twice in h
C18_Distinct(h) == \A i \in 1..Len(h) : \A j \in 1..Len(h) : h[i] = h[j] => i = j

\* C18: with N keys available (in the rotation order and not blacklisted)
\* and nothing changing the store or the set of available keys in between,
\* any N consecutive selections return N distinct ids, whatever the cursor
\* was at the start and whatever blacklisted keys lie in between: they
\* return every available key once.
C18_RoundRobin ==
    /\ C18_Distinct(C18_LastSelections(Cardinality(C18_Available)))
    /\ Len(handed) >= Cardinality(C18_Available) =>
          { handed[i] : i \in (Len(handed) - Cardinality(C18_Available) + 1)
                                ..Len(handed) } = C18_Available

\* C18 witness: of three keys the second is blacklisted, and three
\* selections have returned the third, the first and the third again.
C18_Witness ==
    /\ store.order = <<1, 2, 3>>
    /\ DOMAIN store.blacklist = {2}
    /\ handed = <<3, 1, 3>>

\* C19: after blacklist_key(K, D) at time t (the last such call for K),
\* no selection before t + D returns K; a selection at or after t + D, K
\* being in the rotation order, leaves no entry for K in the blacklist it
\* saves, and returns K when the cursor stands at K.
C19_BlacklistedUntilExpiry ==
    /\ C17_Selected => cooled[cred.ret[1]] <= cred.at
    /\ cred.op = "get_next_available_key" =>
          \A k \in C17_Rotation :
              cooled[k] <= cred.at =>
                /\ k \notin DOMAIN store.blacklist
                /\ store.order[(cred.rr % Len(store.order)) + 1] = k =>
                      cred.ret = <<k, KeyVal(k)>>

\* C19 witness: a key that had been blacklisted has been returned by a
\* selection made when its time was up.
C19_Witness ==
    /\ C17_Selected
    /\ cooled[cred.ret[1]] > 0
    /\ cooled[cred.ret[1]] = cred.at

\* the smallest of the seconds the blacklisted keys had left at the last call
C20_MinimumWait ==
    CHOOSE w \in { store.blacklist[k] - cred.at : k \in DOMAIN store.blacklist } :
        \A k \in DOMAIN store.blacklist : w <= store.blacklist[k] - cred.at

\* C20, as the claim states it: when every key of the rotation order is
\* blacklisted, the selection returns, together with "none available", the
\* minimum remaining wait: the smallest of the seconds the blacklisted keys
\* have left.
C20_NoneWithMinimumWait ==
    ( /\ cred.op = "get_next_available_key"
      /\ store.order # <<>>
      /\ \A k \in C17_Rotation : cooled[k] > cred.at ) =>
        /\ Len(cred.ret) = 2
        /\ cred.ret[1] = None
        /\ cred.ret[2] = C20_MinimumWait

----------------------------------------------------------------------------
(* Claims about the cursor of the credential store                         *)

----------------------------------------------------------------------------
(* Claims about the invoker                                                *)

\* the id of the key with the value key_val
C22_KeyId(key_val) == CHOOSE k \in KeyIds : KeyVal(k) = key_val

\* this step is a call of the planner that raises a rate-limit error
C22_RateLimited ==
    /\ inv.pc = "call"
    /\ inv' # inv
    /\ inv'.outcome = "raised"
    /\ _is_rate_limit_error(inv'.raised)

\* C22, as the claim states it: when a planner call fails with a rate-limit
\* or quota error, the key that was active for the call is on the blacklist
\* afterwards, and the retry, if the invocation makes one, is made with a
\* key that is not blacklisted.
C22_BlacklistsActiveKey ==
    [][ C22_RateLimited =>
          /\ C22_KeyId(inv'.used) \in DOMAIN store'.blacklist
          /\ inv'.pc = "call" =>
                 key_available(store', C22_KeyId(inv'.model)) ]_vars

\* this step is a call of the planner that follows, in the same invocation,
\* a call that raised an error which is not a rate-limit error
C23_RetryAfterTransient ==
    /\ inv.pc = "call"
    /\ inv' # inv
    /\ inv.outcome = "raised"
    /\ ~_is_rate_limit_error(inv.raised)

\* C23, as the claim states it: after a failure that is not a rate-limit
\* error the planner is called again with the same key; the delay slept
\* before retry k is min(2^(k-1), 8); the attempts never exceed the
\* configured maximum; and the invocation returns an answer or, once the
\* attempts are exhausted, the empty result.
C23_SameKeyBackoff ==
    [][ /\ C23_RetryAfterTransient => inv'.used = inv.used
        /\ \A k \in 1..Len(inv'.slept) : inv'.slept[k] = Min(2^(k-1), 8)
        /\ inv'.attempt <= inv'.max_attempts
        /\ (inv'.pc = "done" /\ inv'.ret = "") =>
               inv'.attempt = inv'.max_attempts ]_vars

\* C24, as the claim states it: an invocation that starts while every key
\* is blacklisted stops at once with the hard error AllCredentialsExhausted,
\* and the planner is not called.
C24_HardStopWhenExhausted ==
    (inv.pc # "idle" /\ inv.starved) =>
        /\ inv.pc = "done"
        /\ inv.outcome = ""
        /\ inv.ret = "AllCredentialsExhausted"

----------------------------------------------------------------------------
(* Claims about the shell executor                                         *)

\* the last one-shot call has returned, and its process was one that never
\* exits on its own
C25_BlockedCallReturned ==
    /\ sh.pc = "idle"
    /\ sh.op \in {"run_shell", "run_shell_with_input"}
    /\ sh.cur.proc # 0
    /\ sh.procs[sh.cur.proc].blocks

\* C25: a one-shot command whose process blocks for ever is killed, and
\* only once more than the configured timeout has passed since its start;
\* its call returns; and what it returns is a Warning whose message shows
\* the timeout.
C25_BlockedCommandTimesOut ==
    /\ [](C25_BlockedCallReturned =>
            /\ sh.procs[sh.cur.proc].state = "killed"
            /\ sh.ret.status = "Warning"
            /\ sh.ret.timeout = timeout_sec(env.PAI_SHELL_TIMEOUT))
    /\ [][ \A i \in 1..Len(sh.procs) :
             (sh.procs[i].state = "running" /\ sh'.procs[i].state = "killed") =>
                 now - sh.cur.start > timeout_sec(env.PAI_SHELL_TIMEOUT) ]_vars
    /\ (sh.pc = "wait" /\ sh.procs[sh.cur.proc].blocks) ~> (sh.pc = "idle")

\* run_shell_with_input has returned for a process that blocked
C25_Witness ==
    /\ C25_BlockedCallReturned
    /\ sh.op = "run_shell_with_input"
    /\ sh.procs[sh.cur.proc].state = "killed"
    /\ sh.ret.timeout = 2

\* the process i is the process of a session that is in _SESSIONS
C26_Started(i) ==
    /\ i <= Len(sh.procs)
    /\ \E s \in DOMAIN sh._SESSIONS : sh._SESSIONS[s] = i

\* the session of the process i is terminated: it has been ended, or its
\* process has exited or has been killed
C26_Terminated(i) ==
    /\ i <= Len(sh.procs)
    /\ \/ ~\E s \in DOMAIN sh._SESSIONS : sh._SESSIONS[s] = i
       \/ sh.procs[i].state # "running"

\* C26, as the claim states it: every session that is started is
\* eventually terminated; a session whose process never exits and that is
\* never ended is killed when the timeout has passed.
C26_EverySessionTerminates ==
    \A i \in 1..MaxProcs : C26_Started(i) ~> C26_Terminated(i)

\* the session of the process i has been started and not ended
C27_Live(i) ==
    /\ sh.procs[i].session
    /\ ~\E k \in 1..Len(sh.log) :
           sh.log[k].kind = "END_SESSION" /\ sh.log[k].proc = i

\* C27: no session id is issued twice, and every session that has been
\* started and not ended is in _SESSIONS under an id of its own.
C27_SessionIdsUnique ==
    /\ \A i, j \in 1..Len(sh.issued) : i # j => sh.issued[i] # sh.issued[j]
    /\ \A i \in 1..Len(sh.procs) :
           C27_Live(i) => \E s \in DOMAIN sh._SESSIONS : sh._SESSIONS[s] = i

\* two sessions have been started within the same second
C27_Witness ==
    /\ Len(sh.issued) = 2
    /\ sh.issued[1][1] = sh.issued[2][1]
    /\ Cardinality(DOMAIN sh._SESSIONS) = 2

\* the command matches a network-access pattern
C28_Network(command) ==
    \E tok \in net_indicators : contains(<<" ">> \o command \o <<" ">>, tok)

\* C28, as the claim states it: while PAI_ALLOW_NET is off, no process is
\* spawned for a command that matches a network-access pattern, whichever
\* operation the command is given to.
C28_NoNetworkProcess ==
    ~env.PAI_ALLOW_NET =>
        \A i \in 1..Len(sh.procs) : ~C28_Network(sh.procs[i].cmd)

\* C29, as the claim states it: while PAI_ALLOW_SHELL_EXEC is off, no
\* operation spawns a process, and none returns Success.
C29_NoProcessWhenDisabled ==
    ~env.PAI_ALLOW_SHELL_EXEC =>
        /\ sh.procs = <<>>
        /\ sh.op \in {"run_shell", "run_shell_with_input",
                      "run_shell_session_start"} =>
               sh.ret.status # "Success"

\* C30, as the claim states it: for every process of a one-shot command
\* whose call has returned, the audit log has a line with the command, the
\* exit code and the time, also when the process was killed at the
\* timeout; and for every session process it has the line of its start.
C30_EverySpawnAudited ==
    \A i \in 1..Len(sh.procs) :
        IF sh.procs[i].session
        THEN \E k \in 1..Len(sh.log) :
                 /\ sh.log[k].kind = "START_SESSION"
                 /\ sh.log[k].proc = i
                 /\ sh.log[k].cmd = sh.procs[i].cmd
        ELSE (sh.pc = "wait" /\ sh.cur.proc = i) \/
             \E k \in 1..Len(sh.log) :
                 /\ sh.log[k].kind = "CMD"
                 /\ sh.log[k].proc = i
                 /\ sh.log[k].cmd = sh.procs[i].cmd
                 /\ sh.log[k].exit # None

---------------------------------------------------------------------------
(* Claims about exceptions that leave the engine.                          *)

\* C31: no exception leaves a public operation of the workspace store: every
\* call returns a status and a message, whatever the paths and whatever the
\* operating system answers; none ends by raising.
C31_NoExceptionEscapes ==
    res.status # "Raise"

---------------------------------------------------------------------------
(* Claims about two processes on one credentials file.                     *)

\* the last operation was a selection that returned a key
C32_Selected ==
    cred.op = "get_next_available_key" /\ cred.ret # None

\* the ids a selection could return now: those of the order that are not
\* on the blacklist with a time still to come
C32_Available ==
    { store.order[i] : i \in 1..Len(store.order) } \
        DOMAIN without_expired(store.blacklist, now)

\* C32: two processes that interleave their load-modify-save of the
\* credentials file can lose an update, and only so: a selection returns a
\* key before the end of the cooldown blacklist_key gave it, or two
\* selections in a row return the same key while another is available, only
\* after a save has replaced a file written since the saved store was loaded.
C32_UpdateLostOnlyByRace ==
    /\ (C32_Selected /\ cooled[cred.ret[1]] > cred.at) => runs.overwritten
    /\ ( /\ Len(handed) >= 2
         /\ handed[Len(handed)] = handed[Len(handed) - 1]
         /\ Cardinality(C32_Available) >= 2 ) => runs.overwritten

\* C32 witness: a key that one process has blacklisted is returned by a
\* selection before its cooldown has passed, the entry having been
\* overwritten by the other process's save.
C32_Witness ==
    /\ C32_Selected
    /\ cooled[cred.ret[1]] > cred.at
    /\ cred.ret[1] \notin DOMAIN store.blacklist
    /\ runs.overwritten
    /\ \A p \in Runs : runs.proc[p].pc = "idle"

---------------------------------------------------------------------------
(* Claims about the reader threads.                                        *)

\* the process i has exited or was killed, and no operation is waiting
\* for it
C33_Over(i) ==
    /\ sh.procs[i].state # "running"
    /\ ~(sh.pc = "wait" /\ sh.cur.proc = i)

\* C33, as the claim states it: every process, of a one-shot command or of
\* a session, has two reader threads from its launch, and both have been
\* joined once the process has exited or was killed.
C33_ReadersJoined ==
    \A i \in 1..Len(sh.procs) :
        /\ sh.procs[i].readers = 2
        /\ C33_Over(i) => sh.procs[i].joined = 2

---------------------------------------------------------------------------
(* Claims about MODIFY_FILE and the generations it asks for.               *)

\* C34, as the claim states it: when the content first proposed for a
\* MODIFY_FILE gives an empty diff ("No changes detected"), the dispatcher
\* asks for a second generation with the stricter prompt and applies what
\* it gets; the no-op is not accepted after the one attempt.
C34_StricterRetryAfterEmptyDiff ==
    ( /\ out.taken = <<L_MODIFY_FILE_notes>>
      /\ Len(out.applied) >= 1
      /\ out.applied[1].msg = "No changes detected" ) =>
        /\ Len(out.prompts) >= 2
        /\ out.prompts[2] = "modification_prompt_2"
        /\ Len(out.applied) >= 2

---------------------------------------------------------------------------
(* Claims about the duplicate-signature guard.                             *)

\* the block dispatched last repeats its first action line, and the call
\* did not end at that action
C35_Repeated ==
    /\ Len(plan) >= 2
    /\ plan[2] = plan[1]
    /\ IsValidCommand(Parsed(plan[1]))
    /\ ~out.fin /\ ~out.auto

\* C35, as the claim states it: an action whose text is that of an action
\* already executed in the same step is skipped by the duplicate-signature
\* guard: it is not executed again, its skip is reported and it counts as
\* a no-op.
C35_DuplicateSkippedAsNoop ==
    C35_Repeated =>
        /\ Cardinality({ i \in 1..Len(out.ran) : out.ran[i].line = plan[1] }) <= 1
        /\ \E i \in 1..Len(out.results) :
               /\ out.results[i].status = "Warning"
               /\ out.results[i].msg = "Skipping duplicate action already executed"
        /\ out.noop_streak >= 1

---------------------------------------------------------------------------
(* Claims about MODIFY_FILE with the content in the action line.           *)

\* the file notes.txt holds exactly c
C36_Holds(f, c) ==
    /\ KindOf(f, Loc(P_notes)) = "file"
    /\ f[Loc(P_notes)].data = c

\* C36, as the claim states it: when a MODIFY_FILE for an existing file
\* carries the new content of the file in its description, or a unified
\* diff, the dispatcher applies that content once, asks the planner for
\* nothing, and the file holds that content afterwards.
C36_InlineContentAppliedOnce ==
    [][ ( /\ KindOf(fs, Loc(P_notes)) = "file"
          /\ out'.taken \in { <<L_MODIFY_FILE_inline>>, <<L_MODIFY_FILE_diff>> } ) =>
            /\ Len(out'.applied) = 1
            /\ out'.llm = 0
            /\ C36_Holds(fs', IF out'.taken = <<L_MODIFY_FILE_inline>>
                              THEN InlineContent ELSE <<>>)
      ]_vars

---------------------------------------------------------------------------
(* Claims about operations on a session that is not running.               *)

\* the session id names a session of the table whose process runs
C37_Running(id) ==
    /\ id \in DOMAIN sh._SESSIONS
    /\ sh.procs[sh._SESSIONS[id]].state = "running"

\* the step is a call run_shell_session_input(id, ...)
C37_Fed(id) == sh' = run_shell_session_input(sh, id, FedText, now)

\* the step is a call run_shell_session_end(id)
C37_Ended(id) == sh' = run_shell_session_end(sh, id, now)

\* the step wrote to the stdin of no process and sent no signal to one
C37_NoProcessTouched ==
    /\ Len(sh'.procs) = Len(sh.procs)
    /\ \A i \in 1..Len(sh.procs) :
           /\ sh'.procs[i].fed = sh.procs[i].fed
           /\ sh'.procs[i].state = sh.procs[i].state

\* session_feed on an id that is not in the table (never started, or
\* ended) returns Error "Session not found"; on a session whose process
\* has exited, Error "already exited"; neither writes to a process
C37_FeedRefused(id) ==
    (C37_Fed(id) /\ ~C37_Running(id)) =>
        /\ sh'.ret.status = "Error"
        /\ sh'.ret.msg = IF id \in DOMAIN sh._SESSIONS
                         THEN "Session has already exited"
                         ELSE "Session not found"
        /\ C37_NoProcessTouched
        /\ sh'._SESSIONS = sh._SESSIONS

\* session_end on an id that is not in the table returns a Warning and
\* leaves the table and the processes as they are
C37_EndRefused(id) ==
    (C37_Ended(id) /\ id \notin DOMAIN sh._SESSIONS) =>
        /\ sh'.ret.status = "Warning"
        /\ sh'.ret.msg = "Session not found or already closed"
        /\ C37_NoProcessTouched
        /\ sh'._SESSIONS = sh._SESSIONS

\* session_end on a session of the table whose process has exited
C37_EndOfExited(id) ==
    /\ C37_Ended(id)
    /\ id \in DOMAIN sh._SESSIONS
    /\ ~C37_Running(id)

\* C37, as the claim states it: no operation on a session that is not
\* running writes to a process or reports Success.
C37_NeverSuccessWhenNotRunning ==
    [][ \A id \in SessionIds :
            ((C37_Fed(id) \/ C37_Ended(id)) /\ ~C37_Running(id)) =>
                /\ sh'.ret.status # "Success"
                /\ C37_NoProcessTouched
      ]_vars

\* C37, amended: session_feed on an id that is not in the table returns
\* Error "Session not found", on a session whose process has exited Error
\* "already exited", and session_end on an id that is not in the table a
\* Warning with the table unchanged; none of them writes to a process.
\* session_end on a session of the table whose process has exited by
\* itself removes it from the table and reports Success, touching no
\* process.
C37_RefusedWhenNotRunning ==
    [][ \A id \in SessionIds :
            /\ C37_FeedRefused(id)
            /\ C37_EndRefused(id)
            /\ C37_EndOfExited(id) =>
                   /\ sh'.ret.status = "Success"
                   /\ id \notin DOMAIN sh'._SESSIONS
                   /\ C37_NoProcessTouched
      ]_vars

\* a session was fed after its process had exited, and the call was
\* refused
C37_Witness ==
    /\ sh.op = "run_shell_session_input"
    /\ sh.ret.msg = "Session has already exited"
    /\ \E id \in DOMAIN sh._SESSIONS :
           sh.procs[sh._SESSIONS[id]].state = "exited"

---------------------------------------------------------------------------
(* Claims about the shape of the credentials file.                         *)

\* the ids of the rotation order
C38_OrderIds == { store.order[i] : i \in 1..Len(store.order) }

\* C38, as the claim states it: after any sequence of add_api_key,
\* remove_api_key, set_default_api_key and key selections, the rotation
\* order and the key map hold the same ids, the order holds none of them
\* twice, and the default key id is none or an id of the key map.
C38_OrderMatchesKeys ==
    /\ C38_OrderIds = DOMAIN store.keys
    /\ \A i, j \in 1..Len(store.order) :
           store.order[i] = store.order[j] => i = j
    /\ store.default = 0 \/ store.default \in DOMAIN store.keys

\* a key was removed while others were left, one of which is the default
\* now, and a key that was removed before was added again after another
C38_Witness ==
    /\ cred.op = "remove_api_key"
    /\ cred.key \notin DOMAIN store.keys
    /\ Len(store.order) >= 2
    /\ store.order[1] > store.order[2]
    /\ store.default = store.order[1]

---------------------------------------------------------------------------
(* Claims about the end of the action loop.                                *)

\* the action loop stands at one of the steps 3 .. 24, and its step has
\* asked the planner for a plan twice at most
C39_Bounded ==
    /\ pc \in {"action", "summary"} =>
           /\ action_idx >= 3
           /\ action_idx <= 24
           /\ action_idx - 2 <= 22
    /\ plan_calls <= 2

\* an action step is the step after the one before it
C39_Counted ==
    (pc = "action" /\ pc' = "action") => action_idx' = action_idx + 1

\* C39, as the claim states it: for one request the action loop ends: it
\* runs the steps 3 .. 24 at most, which are 22, each asks the planner for
\* a plan twice at most, and the final summary follows, with a FINISH or
\* without one.
C39_LoopEndsWithSummary ==
    /\ []C39_Bounded
    /\ [][C39_Counted]_vars
    /\ (pc = "scheduler") ~> (pc = "summary")
    /\ (pc = "action") ~> (pc = "summary")
    /\ (pc = "summary") ~> (pc = "prompt")

\* all the 22 action steps were taken, the last one asked for its plan
\* twice, no FINISH was seen, and the summary is next
C39_Witness ==
    /\ pc = "summary"
    /\ action_idx = 24
    /\ plan_calls = 2
    /\ ~finishSeen

====
